---- MODULE Spec2Model ----
(***************************************************************************)
(* A model of translatorBot.py: the start-up configuration check, the      *)
(* translation relay get_translation and the on_message event handler.     *)
(*                                                                         *)
(* Python strings whose characters the code inspects (the message text,    *)
(* the allowlist variable) are sequences of one-character strings; strings *)
(* the code only tests for emptiness and passes on (a fetched message's    *)
(* text, a provider's answer) are TLA+ strings.  A value that may be None  *)
(* is a record with a kind field.                                          *)
(***************************************************************************)
EXTENDS Integers, Sequences, FiniteSets, TLC

VARIABLES boot, handlers, blocked, call

vars == <<boot, handlers, blocked, call>>

(***************************************************************************)
(* Bounds of the explored inputs.                                          *)
(***************************************************************************)
MaxEnvLen == 4
MaxTailLen == 4
MaxInFlight == 2

BoundedSeq(A, n) == UNION {[1..k -> A] : k \in 0..n}

(***************************************************************************)
(* Python string operations used by the code.  A character is a string of  *)
(* length one; a character above U+00FF, which a string constant cannot    *)
(* hold, is written "U+" followed by the four to six hexadecimal digits of *)
(* its code point ("U+0178").  The grave accent U+0060, which a string     *)
(* constant cannot hold either, is left out.  The tables are those of the  *)
(* str methods of Python 3.11 (Unicode 14.0) for every code point: a table *)
(* lists the characters up to U+00FF and gives the others as ranges of     *)
(* code points.                                                            *)
(***************************************************************************)
HexDigits == <<"0", "1", "2", "3", "4", "5", "6", "7",
               "8", "9", "A", "B", "C", "D", "E", "F">>

RECURSIVE HexValue(_)
HexValue(h) ==
    IF h = "" THEN 0
    ELSE 16 * HexValue(SubSeq(h, 1, Len(h) - 1))
         + (CHOOSE i \in 1..16 : HexDigits[i] = SubSeq(h, Len(h), Len(h))) - 1

RECURSIVE HexText(_)
HexText(n) == IF n = 0 THEN "" ELSE HexText(n \div 16) \o HexDigits[(n % 16) + 1]

\* The code point of a character above U+00FF; 0 for a listed character
CodePoint(c) == IF Len(c) > 1 THEN HexValue(SubSeq(c, 3, Len(c))) ELSE 0

\* The character above U+00FF with code point n
Char(n) == "U+" \o (IF n < \h1000 THEN "0" ELSE "") \o HexText(n)

\* The characters of the ranges R of code points
CharsOf(R) == {Char(n) : n \in UNION {R[i][1]..R[i][2] : i \in DOMAIN R}}

\* The characters str.strip() removes (str.isspace)
WhiteSpace == {"\t", "\n", "", "\f", "\r", "", "", "", "", " ", "", " ",
               "U+1680", "U+2000", "U+2001", "U+2002", "U+2003", "U+2004",
               "U+2005", "U+2006", "U+2007", "U+2008", "U+2009", "U+200A",
               "U+2028", "U+2029", "U+202F", "U+205F", "U+3000"}

\* The characters on which str.isalpha() is true
LetterRanges ==
    <<<<\h0100, \h02C1>>, <<\h02C6, \h02D1>>,
      <<\h02E0, \h02E4>>, <<\h02EC, \h02EC>>, <<\h02EE, \h02EE>>,
      <<\h0370, \h0374>>, <<\h0376, \h0377>>, <<\h037A, \h037D>>,
      <<\h037F, \h037F>>, <<\h0386, \h0386>>, <<\h0388, \h038A>>,
      <<\h038C, \h038C>>, <<\h038E, \h03A1>>, <<\h03A3, \h03F5>>,
      <<\h03F7, \h0481>>, <<\h048A, \h052F>>, <<\h0531, \h0556>>,
      <<\h0559, \h0559>>, <<\h0560, \h0588>>, <<\h05D0, \h05EA>>,
      <<\h05EF, \h05F2>>, <<\h0620, \h064A>>, <<\h066E, \h066F>>,
      <<\h0671, \h06D3>>, <<\h06D5, \h06D5>>, <<\h06E5, \h06E6>>,
      <<\h06EE, \h06EF>>, <<\h06FA, \h06FC>>, <<\h06FF, \h06FF>>,
      <<\h0710, \h0710>>, <<\h0712, \h072F>>, <<\h074D, \h07A5>>,
      <<\h07B1, \h07B1>>, <<\h07CA, \h07EA>>, <<\h07F4, \h07F5>>,
      <<\h07FA, \h07FA>>, <<\h0800, \h0815>>, <<\h081A, \h081A>>,
      <<\h0824, \h0824>>, <<\h0828, \h0828>>, <<\h0840, \h0858>>,
      <<\h0860, \h086A>>, <<\h0870, \h0887>>, <<\h0889, \h088E>>,
      <<\h08A0, \h08C9>>, <<\h0904, \h0939>>, <<\h093D, \h093D>>,
      <<\h0950, \h0950>>, <<\h0958, \h0961>>, <<\h0971, \h0980>>,
      <<\h0985, \h098C>>, <<\h098F, \h0990>>, <<\h0993, \h09A8>>,
      <<\h09AA, \h09B0>>, <<\h09B2, \h09B2>>, <<\h09B6, \h09B9>>,
      <<\h09BD, \h09BD>>, <<\h09CE, \h09CE>>, <<\h09DC, \h09DD>>,
      <<\h09DF, \h09E1>>, <<\h09F0, \h09F1>>, <<\h09FC, \h09FC>>,
      <<\h0A05, \h0A0A>>, <<\h0A0F, \h0A10>>, <<\h0A13, \h0A28>>,
      <<\h0A2A, \h0A30>>, <<\h0A32, \h0A33>>, <<\h0A35, \h0A36>>,
      <<\h0A38, \h0A39>>, <<\h0A59, \h0A5C>>, <<\h0A5E, \h0A5E>>,
      <<\h0A72, \h0A74>>, <<\h0A85, \h0A8D>>, <<\h0A8F, \h0A91>>,
      <<\h0A93, \h0AA8>>, <<\h0AAA, \h0AB0>>, <<\h0AB2, \h0AB3>>,
      <<\h0AB5, \h0AB9>>, <<\h0ABD, \h0ABD>>, <<\h0AD0, \h0AD0>>,
      <<\h0AE0, \h0AE1>>, <<\h0AF9, \h0AF9>>, <<\h0B05, \h0B0C>>,
      <<\h0B0F, \h0B10>>, <<\h0B13, \h0B28>>, <<\h0B2A, \h0B30>>,
      <<\h0B32, \h0B33>>, <<\h0B35, \h0B39>>, <<\h0B3D, \h0B3D>>,
      <<\h0B5C, \h0B5D>>, <<\h0B5F, \h0B61>>, <<\h0B71, \h0B71>>,
      <<\h0B83, \h0B83>>, <<\h0B85, \h0B8A>>, <<\h0B8E, \h0B90>>,
      <<\h0B92, \h0B95>>, <<\h0B99, \h0B9A>>, <<\h0B9C, \h0B9C>>,
      <<\h0B9E, \h0B9F>>, <<\h0BA3, \h0BA4>>, <<\h0BA8, \h0BAA>>,
      <<\h0BAE, \h0BB9>>, <<\h0BD0, \h0BD0>>, <<\h0C05, \h0C0C>>,
      <<\h0C0E, \h0C10>>, <<\h0C12, \h0C28>>, <<\h0C2A, \h0C39>>,
      <<\h0C3D, \h0C3D>>, <<\h0C58, \h0C5A>>, <<\h0C5D, \h0C5D>>,
      <<\h0C60, \h0C61>>, <<\h0C80, \h0C80>>, <<\h0C85, \h0C8C>>,
      <<\h0C8E, \h0C90>>, <<\h0C92, \h0CA8>>, <<\h0CAA, \h0CB3>>,
      <<\h0CB5, \h0CB9>>, <<\h0CBD, \h0CBD>>, <<\h0CDD, \h0CDE>>,
      <<\h0CE0, \h0CE1>>, <<\h0CF1, \h0CF2>>, <<\h0D04, \h0D0C>>,
      <<\h0D0E, \h0D10>>, <<\h0D12, \h0D3A>>, <<\h0D3D, \h0D3D>>,
      <<\h0D4E, \h0D4E>>, <<\h0D54, \h0D56>>, <<\h0D5F, \h0D61>>,
      <<\h0D7A, \h0D7F>>, <<\h0D85, \h0D96>>, <<\h0D9A, \h0DB1>>,
      <<\h0DB3, \h0DBB>>, <<\h0DBD, \h0DBD>>, <<\h0DC0, \h0DC6>>,
      <<\h0E01, \h0E30>>, <<\h0E32, \h0E33>>, <<\h0E40, \h0E46>>,
      <<\h0E81, \h0E82>>, <<\h0E84, \h0E84>>, <<\h0E86, \h0E8A>>,
      <<\h0E8C, \h0EA3>>, <<\h0EA5, \h0EA5>>, <<\h0EA7, \h0EB0>>,
      <<\h0EB2, \h0EB3>>, <<\h0EBD, \h0EBD>>, <<\h0EC0, \h0EC4>>,
      <<\h0EC6, \h0EC6>>, <<\h0EDC, \h0EDF>>, <<\h0F00, \h0F00>>,
      <<\h0F40, \h0F47>>, <<\h0F49, \h0F6C>>, <<\h0F88, \h0F8C>>,
      <<\h1000, \h102A>>, <<\h103F, \h103F>>, <<\h1050, \h1055>>,
      <<\h105A, \h105D>>, <<\h1061, \h1061>>, <<\h1065, \h1066>>,
      <<\h106E, \h1070>>, <<\h1075, \h1081>>, <<\h108E, \h108E>>,
      <<\h10A0, \h10C5>>, <<\h10C7, \h10C7>>, <<\h10CD, \h10CD>>,
      <<\h10D0, \h10FA>>, <<\h10FC, \h1248>>, <<\h124A, \h124D>>,
      <<\h1250, \h1256>>, <<\h1258, \h1258>>, <<\h125A, \h125D>>,
      <<\h1260, \h1288>>, <<\h128A, \h128D>>, <<\h1290, \h12B0>>,
      <<\h12B2, \h12B5>>, <<\h12B8, \h12BE>>, <<\h12C0, \h12C0>>,
      <<\h12C2, \h12C5>>, <<\h12C8, \h12D6>>, <<\h12D8, \h1310>>,
      <<\h1312, \h1315>>, <<\h1318, \h135A>>, <<\h1380, \h138F>>,
      <<\h13A0, \h13F5>>, <<\h13F8, \h13FD>>, <<\h1401, \h166C>>,
      <<\h166F, \h167F>>, <<\h1681, \h169A>>, <<\h16A0, \h16EA>>,
      <<\h16F1, \h16F8>>, <<\h1700, \h1711>>, <<\h171F, \h1731>>,
      <<\h1740, \h1751>>, <<\h1760, \h176C>>, <<\h176E, \h1770>>,
      <<\h1780, \h17B3>>, <<\h17D7, \h17D7>>, <<\h17DC, \h17DC>>,
      <<\h1820, \h1878>>, <<\h1880, \h1884>>, <<\h1887, \h18A8>>,
      <<\h18AA, \h18AA>>, <<\h18B0, \h18F5>>, <<\h1900, \h191E>>,
      <<\h1950, \h196D>>, <<\h1970, \h1974>>, <<\h1980, \h19AB>>,
      <<\h19B0, \h19C9>>, <<\h1A00, \h1A16>>, <<\h1A20, \h1A54>>,
      <<\h1AA7, \h1AA7>>, <<\h1B05, \h1B33>>, <<\h1B45, \h1B4C>>,
      <<\h1B83, \h1BA0>>, <<\h1BAE, \h1BAF>>, <<\h1BBA, \h1BE5>>,
      <<\h1C00, \h1C23>>, <<\h1C4D, \h1C4F>>, <<\h1C5A, \h1C7D>>,
      <<\h1C80, \h1C88>>, <<\h1C90, \h1CBA>>, <<\h1CBD, \h1CBF>>,
      <<\h1CE9, \h1CEC>>, <<\h1CEE, \h1CF3>>, <<\h1CF5, \h1CF6>>,
      <<\h1CFA, \h1CFA>>, <<\h1D00, \h1DBF>>, <<\h1E00, \h1F15>>,
      <<\h1F18, \h1F1D>>, <<\h1F20, \h1F45>>, <<\h1F48, \h1F4D>>,
      <<\h1F50, \h1F57>>, <<\h1F59, \h1F59>>, <<\h1F5B, \h1F5B>>,
      <<\h1F5D, \h1F5D>>, <<\h1F5F, \h1F7D>>, <<\h1F80, \h1FB4>>,
      <<\h1FB6, \h1FBC>>, <<\h1FBE, \h1FBE>>, <<\h1FC2, \h1FC4>>,
      <<\h1FC6, \h1FCC>>, <<\h1FD0, \h1FD3>>, <<\h1FD6, \h1FDB>>,
      <<\h1FE0, \h1FEC>>, <<\h1FF2, \h1FF4>>, <<\h1FF6, \h1FFC>>,
      <<\h2071, \h2071>>, <<\h207F, \h207F>>, <<\h2090, \h209C>>,
      <<\h2102, \h2102>>, <<\h2107, \h2107>>, <<\h210A, \h2113>>,
      <<\h2115, \h2115>>, <<\h2119, \h211D>>, <<\h2124, \h2124>>,
      <<\h2126, \h2126>>, <<\h2128, \h2128>>, <<\h212A, \h212D>>,
      <<\h212F, \h2139>>, <<\h213C, \h213F>>, <<\h2145, \h2149>>,
      <<\h214E, \h214E>>, <<\h2183, \h2184>>, <<\h2C00, \h2CE4>>,
      <<\h2CEB, \h2CEE>>, <<\h2CF2, \h2CF3>>, <<\h2D00, \h2D25>>,
      <<\h2D27, \h2D27>>, <<\h2D2D, \h2D2D>>, <<\h2D30, \h2D67>>,
      <<\h2D6F, \h2D6F>>, <<\h2D80, \h2D96>>, <<\h2DA0, \h2DA6>>,
      <<\h2DA8, \h2DAE>>, <<\h2DB0, \h2DB6>>, <<\h2DB8, \h2DBE>>,
      <<\h2DC0, \h2DC6>>, <<\h2DC8, \h2DCE>>, <<\h2DD0, \h2DD6>>,
      <<\h2DD8, \h2DDE>>, <<\h2E2F, \h2E2F>>, <<\h3005, \h3006>>,
      <<\h3031, \h3035>>, <<\h303B, \h303C>>, <<\h3041, \h3096>>,
      <<\h309D, \h309F>>, <<\h30A1, \h30FA>>, <<\h30FC, \h30FF>>,
      <<\h3105, \h312F>>, <<\h3131, \h318E>>, <<\h31A0, \h31BF>>,
      <<\h31F0, \h31FF>>, <<\h3400, \h4DBF>>, <<\h4E00, \hA48C>>,
      <<\hA4D0, \hA4FD>>, <<\hA500, \hA60C>>, <<\hA610, \hA61F>>,
      <<\hA62A, \hA62B>>, <<\hA640, \hA66E>>, <<\hA67F, \hA69D>>,
      <<\hA6A0, \hA6E5>>, <<\hA717, \hA71F>>, <<\hA722, \hA788>>,
      <<\hA78B, \hA7CA>>, <<\hA7D0, \hA7D1>>, <<\hA7D3, \hA7D3>>,
      <<\hA7D5, \hA7D9>>, <<\hA7F2, \hA801>>, <<\hA803, \hA805>>,
      <<\hA807, \hA80A>>, <<\hA80C, \hA822>>, <<\hA840, \hA873>>,
      <<\hA882, \hA8B3>>, <<\hA8F2, \hA8F7>>, <<\hA8FB, \hA8FB>>,
      <<\hA8FD, \hA8FE>>, <<\hA90A, \hA925>>, <<\hA930, \hA946>>,
      <<\hA960, \hA97C>>, <<\hA984, \hA9B2>>, <<\hA9CF, \hA9CF>>,
      <<\hA9E0, \hA9E4>>, <<\hA9E6, \hA9EF>>, <<\hA9FA, \hA9FE>>,
      <<\hAA00, \hAA28>>, <<\hAA40, \hAA42>>, <<\hAA44, \hAA4B>>,
      <<\hAA60, \hAA76>>, <<\hAA7A, \hAA7A>>, <<\hAA7E, \hAAAF>>,
      <<\hAAB1, \hAAB1>>, <<\hAAB5, \hAAB6>>, <<\hAAB9, \hAABD>>,
      <<\hAAC0, \hAAC0>>, <<\hAAC2, \hAAC2>>, <<\hAADB, \hAADD>>,
      <<\hAAE0, \hAAEA>>, <<\hAAF2, \hAAF4>>, <<\hAB01, \hAB06>>,
      <<\hAB09, \hAB0E>>, <<\hAB11, \hAB16>>, <<\hAB20, \hAB26>>,
      <<\hAB28, \hAB2E>>, <<\hAB30, \hAB5A>>, <<\hAB5C, \hAB69>>,
      <<\hAB70, \hABE2>>, <<\hAC00, \hD7A3>>, <<\hD7B0, \hD7C6>>,
      <<\hD7CB, \hD7FB>>, <<\hF900, \hFA6D>>, <<\hFA70, \hFAD9>>,
      <<\hFB00, \hFB06>>, <<\hFB13, \hFB17>>, <<\hFB1D, \hFB1D>>,
      <<\hFB1F, \hFB28>>, <<\hFB2A, \hFB36>>, <<\hFB38, \hFB3C>>,
      <<\hFB3E, \hFB3E>>, <<\hFB40, \hFB41>>, <<\hFB43, \hFB44>>,
      <<\hFB46, \hFBB1>>, <<\hFBD3, \hFD3D>>, <<\hFD50, \hFD8F>>,
      <<\hFD92, \hFDC7>>, <<\hFDF0, \hFDFB>>, <<\hFE70, \hFE74>>,
      <<\hFE76, \hFEFC>>, <<\hFF21, \hFF3A>>, <<\hFF41, \hFF5A>>,
      <<\hFF66, \hFFBE>>, <<\hFFC2, \hFFC7>>, <<\hFFCA, \hFFCF>>,
      <<\hFFD2, \hFFD7>>, <<\hFFDA, \hFFDC>>, <<\h10000, \h1000B>>,
      <<\h1000D, \h10026>>, <<\h10028, \h1003A>>, <<\h1003C, \h1003D>>,
      <<\h1003F, \h1004D>>, <<\h10050, \h1005D>>, <<\h10080, \h100FA>>,
      <<\h10280, \h1029C>>, <<\h102A0, \h102D0>>, <<\h10300, \h1031F>>,
      <<\h1032D, \h10340>>, <<\h10342, \h10349>>, <<\h10350, \h10375>>,
      <<\h10380, \h1039D>>, <<\h103A0, \h103C3>>, <<\h103C8, \h103CF>>,
      <<\h10400, \h1049D>>, <<\h104B0, \h104D3>>, <<\h104D8, \h104FB>>,
      <<\h10500, \h10527>>, <<\h10530, \h10563>>, <<\h10570, \h1057A>>,
      <<\h1057C, \h1058A>>, <<\h1058C, \h10592>>, <<\h10594, \h10595>>,
      <<\h10597, \h105A1>>, <<\h105A3, \h105B1>>, <<\h105B3, \h105B9>>,
      <<\h105BB, \h105BC>>, <<\h10600, \h10736>>, <<\h10740, \h10755>>,
      <<\h10760, \h10767>>, <<\h10780, \h10785>>, <<\h10787, \h107B0>>,
      <<\h107B2, \h107BA>>, <<\h10800, \h10805>>, <<\h10808, \h10808>>,
      <<\h1080A, \h10835>>, <<\h10837, \h10838>>, <<\h1083C, \h1083C>>,
      <<\h1083F, \h10855>>, <<\h10860, \h10876>>, <<\h10880, \h1089E>>,
      <<\h108E0, \h108F2>>, <<\h108F4, \h108F5>>, <<\h10900, \h10915>>,
      <<\h10920, \h10939>>, <<\h10980, \h109B7>>, <<\h109BE, \h109BF>>,
      <<\h10A00, \h10A00>>, <<\h10A10, \h10A13>>, <<\h10A15, \h10A17>>,
      <<\h10A19, \h10A35>>, <<\h10A60, \h10A7C>>, <<\h10A80, \h10A9C>>,
      <<\h10AC0, \h10AC7>>, <<\h10AC9, \h10AE4>>, <<\h10B00, \h10B35>>,
      <<\h10B40, \h10B55>>, <<\h10B60, \h10B72>>, <<\h10B80, \h10B91>>,
      <<\h10C00, \h10C48>>, <<\h10C80, \h10CB2>>, <<\h10CC0, \h10CF2>>,
      <<\h10D00, \h10D23>>, <<\h10E80, \h10EA9>>, <<\h10EB0, \h10EB1>>,
      <<\h10F00, \h10F1C>>, <<\h10F27, \h10F27>>, <<\h10F30, \h10F45>>,
      <<\h10F70, \h10F81>>, <<\h10FB0, \h10FC4>>, <<\h10FE0, \h10FF6>>,
      <<\h11003, \h11037>>, <<\h11071, \h11072>>, <<\h11075, \h11075>>,
      <<\h11083, \h110AF>>, <<\h110D0, \h110E8>>, <<\h11103, \h11126>>,
      <<\h11144, \h11144>>, <<\h11147, \h11147>>, <<\h11150, \h11172>>,
      <<\h11176, \h11176>>, <<\h11183, \h111B2>>, <<\h111C1, \h111C4>>,
      <<\h111DA, \h111DA>>, <<\h111DC, \h111DC>>, <<\h11200, \h11211>>,
      <<\h11213, \h1122B>>, <<\h11280, \h11286>>, <<\h11288, \h11288>>,
      <<\h1128A, \h1128D>>, <<\h1128F, \h1129D>>, <<\h1129F, \h112A8>>,
      <<\h112B0, \h112DE>>, <<\h11305, \h1130C>>, <<\h1130F, \h11310>>,
      <<\h11313, \h11328>>, <<\h1132A, \h11330>>, <<\h11332, \h11333>>,
      <<\h11335, \h11339>>, <<\h1133D, \h1133D>>, <<\h11350, \h11350>>,
      <<\h1135D, \h11361>>, <<\h11400, \h11434>>, <<\h11447, \h1144A>>,
      <<\h1145F, \h11461>>, <<\h11480, \h114AF>>, <<\h114C4, \h114C5>>,
      <<\h114C7, \h114C7>>, <<\h11580, \h115AE>>, <<\h115D8, \h115DB>>,
      <<\h11600, \h1162F>>, <<\h11644, \h11644>>, <<\h11680, \h116AA>>,
      <<\h116B8, \h116B8>>, <<\h11700, \h1171A>>, <<\h11740, \h11746>>,
      <<\h11800, \h1182B>>, <<\h118A0, \h118DF>>, <<\h118FF, \h11906>>,
      <<\h11909, \h11909>>, <<\h1190C, \h11913>>, <<\h11915, \h11916>>,
      <<\h11918, \h1192F>>, <<\h1193F, \h1193F>>, <<\h11941, \h11941>>,
      <<\h119A0, \h119A7>>, <<\h119AA, \h119D0>>, <<\h119E1, \h119E1>>,
      <<\h119E3, \h119E3>>, <<\h11A00, \h11A00>>, <<\h11A0B, \h11A32>>,
      <<\h11A3A, \h11A3A>>, <<\h11A50, \h11A50>>, <<\h11A5C, \h11A89>>,
      <<\h11A9D, \h11A9D>>, <<\h11AB0, \h11AF8>>, <<\h11C00, \h11C08>>,
      <<\h11C0A, \h11C2E>>, <<\h11C40, \h11C40>>, <<\h11C72, \h11C8F>>,
      <<\h11D00, \h11D06>>, <<\h11D08, \h11D09>>, <<\h11D0B, \h11D30>>,
      <<\h11D46, \h11D46>>, <<\h11D60, \h11D65>>, <<\h11D67, \h11D68>>,
      <<\h11D6A, \h11D89>>, <<\h11D98, \h11D98>>, <<\h11EE0, \h11EF2>>,
      <<\h11FB0, \h11FB0>>, <<\h12000, \h12399>>, <<\h12480, \h12543>>,
      <<\h12F90, \h12FF0>>, <<\h13000, \h1342E>>, <<\h14400, \h14646>>,
      <<\h16800, \h16A38>>, <<\h16A40, \h16A5E>>, <<\h16A70, \h16ABE>>,
      <<\h16AD0, \h16AED>>, <<\h16B00, \h16B2F>>, <<\h16B40, \h16B43>>,
      <<\h16B63, \h16B77>>, <<\h16B7D, \h16B8F>>, <<\h16E40, \h16E7F>>,
      <<\h16F00, \h16F4A>>, <<\h16F50, \h16F50>>, <<\h16F93, \h16F9F>>,
      <<\h16FE0, \h16FE1>>, <<\h16FE3, \h16FE3>>, <<\h17000, \h187F7>>,
      <<\h18800, \h18CD5>>, <<\h18D00, \h18D08>>, <<\h1AFF0, \h1AFF3>>,
      <<\h1AFF5, \h1AFFB>>, <<\h1AFFD, \h1AFFE>>, <<\h1B000, \h1B122>>,
      <<\h1B150, \h1B152>>, <<\h1B164, \h1B167>>, <<\h1B170, \h1B2FB>>,
      <<\h1BC00, \h1BC6A>>, <<\h1BC70, \h1BC7C>>, <<\h1BC80, \h1BC88>>,
      <<\h1BC90, \h1BC99>>, <<\h1D400, \h1D454>>, <<\h1D456, \h1D49C>>,
      <<\h1D49E, \h1D49F>>, <<\h1D4A2, \h1D4A2>>, <<\h1D4A5, \h1D4A6>>,
      <<\h1D4A9, \h1D4AC>>, <<\h1D4AE, \h1D4B9>>, <<\h1D4BB, \h1D4BB>>,
      <<\h1D4BD, \h1D4C3>>, <<\h1D4C5, \h1D505>>, <<\h1D507, \h1D50A>>,
      <<\h1D50D, \h1D514>>, <<\h1D516, \h1D51C>>, <<\h1D51E, \h1D539>>,
      <<\h1D53B, \h1D53E>>, <<\h1D540, \h1D544>>, <<\h1D546, \h1D546>>,
      <<\h1D54A, \h1D550>>, <<\h1D552, \h1D6A5>>, <<\h1D6A8, \h1D6C0>>,
      <<\h1D6C2, \h1D6DA>>, <<\h1D6DC, \h1D6FA>>, <<\h1D6FC, \h1D714>>,
      <<\h1D716, \h1D734>>, <<\h1D736, \h1D74E>>, <<\h1D750, \h1D76E>>,
      <<\h1D770, \h1D788>>, <<\h1D78A, \h1D7A8>>, <<\h1D7AA, \h1D7C2>>,
      <<\h1D7C4, \h1D7CB>>, <<\h1DF00, \h1DF1E>>, <<\h1E100, \h1E12C>>,
      <<\h1E137, \h1E13D>>, <<\h1E14E, \h1E14E>>, <<\h1E290, \h1E2AD>>,
      <<\h1E2C0, \h1E2EB>>, <<\h1E7E0, \h1E7E6>>, <<\h1E7E8, \h1E7EB>>,
      <<\h1E7ED, \h1E7EE>>, <<\h1E7F0, \h1E7FE>>, <<\h1E800, \h1E8C4>>,
      <<\h1E900, \h1E943>>, <<\h1E94B, \h1E94B>>, <<\h1EE00, \h1EE03>>,
      <<\h1EE05, \h1EE1F>>, <<\h1EE21, \h1EE22>>, <<\h1EE24, \h1EE24>>,
      <<\h1EE27, \h1EE27>>, <<\h1EE29, \h1EE32>>, <<\h1EE34, \h1EE37>>,
      <<\h1EE39, \h1EE39>>, <<\h1EE3B, \h1EE3B>>, <<\h1EE42, \h1EE42>>,
      <<\h1EE47, \h1EE47>>, <<\h1EE49, \h1EE49>>, <<\h1EE4B, \h1EE4B>>,
      <<\h1EE4D, \h1EE4F>>, <<\h1EE51, \h1EE52>>, <<\h1EE54, \h1EE54>>,
      <<\h1EE57, \h1EE57>>, <<\h1EE59, \h1EE59>>, <<\h1EE5B, \h1EE5B>>,
      <<\h1EE5D, \h1EE5D>>, <<\h1EE5F, \h1EE5F>>, <<\h1EE61, \h1EE62>>,
      <<\h1EE64, \h1EE64>>, <<\h1EE67, \h1EE6A>>, <<\h1EE6C, \h1EE72>>,
      <<\h1EE74, \h1EE77>>, <<\h1EE79, \h1EE7C>>, <<\h1EE7E, \h1EE7E>>,
      <<\h1EE80, \h1EE89>>, <<\h1EE8B, \h1EE9B>>, <<\h1EEA1, \h1EEA3>>,
      <<\h1EEA5, \h1EEA9>>, <<\h1EEAB, \h1EEBB>>, <<\h20000, \h2A6DF>>,
      <<\h2A700, \h2B738>>, <<\h2B740, \h2B81D>>, <<\h2B820, \h2CEA1>>,
      <<\h2CEB0, \h2EBE0>>, <<\h2F800, \h2FA1D>>, <<\h30000, \h3134A>>>>

Letters ==
    {"A", "B", "C", "D", "E", "F", "G", "H", "I", "J", "K", "L",
     "M", "N", "O", "P", "Q", "R", "S", "T", "U", "V", "W", "X", "Y", "Z",
     "a", "b", "c", "d", "e", "f", "g", "h", "i", "j", "k", "l", "m", "n",
     "o", "p", "q", "r", "s", "t", "u", "v", "w", "x", "y", "z", "ª", "µ",
     "º", "À", "Á", "Â", "Ã", "Ä", "Å", "Æ", "Ç", "È", "É", "Ê", "Ë", "Ì",
     "Í", "Î", "Ï", "Ð", "Ñ", "Ò", "Ó", "Ô", "Õ", "Ö", "Ø", "Ù", "Ú", "Û",
     "Ü", "Ý", "Þ", "ß", "à", "á", "â", "ã", "ä", "å", "æ", "ç", "è", "é",
     "ê", "ë", "ì", "í", "î", "ï", "ð", "ñ", "ò", "ó", "ô", "õ", "ö", "ø",
     "ù", "ú", "û", "ü", "ý", "þ", "ÿ"}
        \cup CharsOf(LetterRanges)

\* The decimal digits int() accepts, one row per script, each in the order 0..9
DigitRows ==
    <<<<"0", "1", "2", "3", "4", "5", "6", "7", "8", "9">>,
      <<"U+0660", "U+0661", "U+0662", "U+0663", "U+0664", "U+0665", "U+0666", "U+0667", "U+0668", "U+0669">>,
      <<"U+06F0", "U+06F1", "U+06F2", "U+06F3", "U+06F4", "U+06F5", "U+06F6", "U+06F7", "U+06F8", "U+06F9">>,
      <<"U+07C0", "U+07C1", "U+07C2", "U+07C3", "U+07C4", "U+07C5", "U+07C6", "U+07C7", "U+07C8", "U+07C9">>,
      <<"U+0966", "U+0967", "U+0968", "U+0969", "U+096A", "U+096B", "U+096C", "U+096D", "U+096E", "U+096F">>,
      <<"U+09E6", "U+09E7", "U+09E8", "U+09E9", "U+09EA", "U+09EB", "U+09EC", "U+09ED", "U+09EE", "U+09EF">>,
      <<"U+0A66", "U+0A67", "U+0A68", "U+0A69", "U+0A6A", "U+0A6B", "U+0A6C", "U+0A6D", "U+0A6E", "U+0A6F">>,
      <<"U+0AE6", "U+0AE7", "U+0AE8", "U+0AE9", "U+0AEA", "U+0AEB", "U+0AEC", "U+0AED", "U+0AEE", "U+0AEF">>,
      <<"U+0B66", "U+0B67", "U+0B68", "U+0B69", "U+0B6A", "U+0B6B", "U+0B6C", "U+0B6D", "U+0B6E", "U+0B6F">>,
      <<"U+0BE6", "U+0BE7", "U+0BE8", "U+0BE9", "U+0BEA", "U+0BEB", "U+0BEC", "U+0BED", "U+0BEE", "U+0BEF">>,
      <<"U+0C66", "U+0C67", "U+0C68", "U+0C69", "U+0C6A", "U+0C6B", "U+0C6C", "U+0C6D", "U+0C6E", "U+0C6F">>,
      <<"U+0CE6", "U+0CE7", "U+0CE8", "U+0CE9", "U+0CEA", "U+0CEB", "U+0CEC", "U+0CED", "U+0CEE", "U+0CEF">>,
      <<"U+0D66", "U+0D67", "U+0D68", "U+0D69", "U+0D6A", "U+0D6B", "U+0D6C", "U+0D6D", "U+0D6E", "U+0D6F">>,
      <<"U+0DE6", "U+0DE7", "U+0DE8", "U+0DE9", "U+0DEA", "U+0DEB", "U+0DEC", "U+0DED", "U+0DEE", "U+0DEF">>,
      <<"U+0E50", "U+0E51", "U+0E52", "U+0E53", "U+0E54", "U+0E55", "U+0E56", "U+0E57", "U+0E58", "U+0E59">>,
      <<"U+0ED0", "U+0ED1", "U+0ED2", "U+0ED3", "U+0ED4", "U+0ED5", "U+0ED6", "U+0ED7", "U+0ED8", "U+0ED9">>,
      <<"U+0F20", "U+0F21", "U+0F22", "U+0F23", "U+0F24", "U+0F25", "U+0F26", "U+0F27", "U+0F28", "U+0F29">>,
      <<"U+1040", "U+1041", "U+1042", "U+1043", "U+1044", "U+1045", "U+1046", "U+1047", "U+1048", "U+1049">>,
      <<"U+1090", "U+1091", "U+1092", "U+1093", "U+1094", "U+1095", "U+1096", "U+1097", "U+1098", "U+1099">>,
      <<"U+17E0", "U+17E1", "U+17E2", "U+17E3", "U+17E4", "U+17E5", "U+17E6", "U+17E7", "U+17E8", "U+17E9">>,
      <<"U+1810", "U+1811", "U+1812", "U+1813", "U+1814", "U+1815", "U+1816", "U+1817", "U+1818", "U+1819">>,
      <<"U+1946", "U+1947", "U+1948", "U+1949", "U+194A", "U+194B", "U+194C", "U+194D", "U+194E", "U+194F">>,
      <<"U+19D0", "U+19D1", "U+19D2", "U+19D3", "U+19D4", "U+19D5", "U+19D6", "U+19D7", "U+19D8", "U+19D9">>,
      <<"U+1A80", "U+1A81", "U+1A82", "U+1A83", "U+1A84", "U+1A85", "U+1A86", "U+1A87", "U+1A88", "U+1A89">>,
      <<"U+1A90", "U+1A91", "U+1A92", "U+1A93", "U+1A94", "U+1A95", "U+1A96", "U+1A97", "U+1A98", "U+1A99">>,
      <<"U+1B50", "U+1B51", "U+1B52", "U+1B53", "U+1B54", "U+1B55", "U+1B56", "U+1B57", "U+1B58", "U+1B59">>,
      <<"U+1BB0", "U+1BB1", "U+1BB2", "U+1BB3", "U+1BB4", "U+1BB5", "U+1BB6", "U+1BB7", "U+1BB8", "U+1BB9">>,
      <<"U+1C40", "U+1C41", "U+1C42", "U+1C43", "U+1C44", "U+1C45", "U+1C46", "U+1C47", "U+1C48", "U+1C49">>,
      <<"U+1C50", "U+1C51", "U+1C52", "U+1C53", "U+1C54", "U+1C55", "U+1C56", "U+1C57", "U+1C58", "U+1C59">>,
      <<"U+A620", "U+A621", "U+A622", "U+A623", "U+A624", "U+A625", "U+A626", "U+A627", "U+A628", "U+A629">>,
      <<"U+A8D0", "U+A8D1", "U+A8D2", "U+A8D3", "U+A8D4", "U+A8D5", "U+A8D6", "U+A8D7", "U+A8D8", "U+A8D9">>,
      <<"U+A900", "U+A901", "U+A902", "U+A903", "U+A904", "U+A905", "U+A906", "U+A907", "U+A908", "U+A909">>,
      <<"U+A9D0", "U+A9D1", "U+A9D2", "U+A9D3", "U+A9D4", "U+A9D5", "U+A9D6", "U+A9D7", "U+A9D8", "U+A9D9">>,
      <<"U+A9F0", "U+A9F1", "U+A9F2", "U+A9F3", "U+A9F4", "U+A9F5", "U+A9F6", "U+A9F7", "U+A9F8", "U+A9F9">>,
      <<"U+AA50", "U+AA51", "U+AA52", "U+AA53", "U+AA54", "U+AA55", "U+AA56", "U+AA57", "U+AA58", "U+AA59">>,
      <<"U+ABF0", "U+ABF1", "U+ABF2", "U+ABF3", "U+ABF4", "U+ABF5", "U+ABF6", "U+ABF7", "U+ABF8", "U+ABF9">>,
      <<"U+FF10", "U+FF11", "U+FF12", "U+FF13", "U+FF14", "U+FF15", "U+FF16", "U+FF17", "U+FF18", "U+FF19">>,
      <<"U+104A0", "U+104A1", "U+104A2", "U+104A3", "U+104A4", "U+104A5", "U+104A6", "U+104A7", "U+104A8", "U+104A9">>,
      <<"U+10D30", "U+10D31", "U+10D32", "U+10D33", "U+10D34", "U+10D35", "U+10D36", "U+10D37", "U+10D38", "U+10D39">>,
      <<"U+11066", "U+11067", "U+11068", "U+11069", "U+1106A", "U+1106B", "U+1106C", "U+1106D", "U+1106E", "U+1106F">>,
      <<"U+110F0", "U+110F1", "U+110F2", "U+110F3", "U+110F4", "U+110F5", "U+110F6", "U+110F7", "U+110F8", "U+110F9">>,
      <<"U+11136", "U+11137", "U+11138", "U+11139", "U+1113A", "U+1113B", "U+1113C", "U+1113D", "U+1113E", "U+1113F">>,
      <<"U+111D0", "U+111D1", "U+111D2", "U+111D3", "U+111D4", "U+111D5", "U+111D6", "U+111D7", "U+111D8", "U+111D9">>,
      <<"U+112F0", "U+112F1", "U+112F2", "U+112F3", "U+112F4", "U+112F5", "U+112F6", "U+112F7", "U+112F8", "U+112F9">>,
      <<"U+11450", "U+11451", "U+11452", "U+11453", "U+11454", "U+11455", "U+11456", "U+11457", "U+11458", "U+11459">>,
      <<"U+114D0", "U+114D1", "U+114D2", "U+114D3", "U+114D4", "U+114D5", "U+114D6", "U+114D7", "U+114D8", "U+114D9">>,
      <<"U+11650", "U+11651", "U+11652", "U+11653", "U+11654", "U+11655", "U+11656", "U+11657", "U+11658", "U+11659">>,
      <<"U+116C0", "U+116C1", "U+116C2", "U+116C3", "U+116C4", "U+116C5", "U+116C6", "U+116C7", "U+116C8", "U+116C9">>,
      <<"U+11730", "U+11731", "U+11732", "U+11733", "U+11734", "U+11735", "U+11736", "U+11737", "U+11738", "U+11739">>,
      <<"U+118E0", "U+118E1", "U+118E2", "U+118E3", "U+118E4", "U+118E5", "U+118E6", "U+118E7", "U+118E8", "U+118E9">>,
      <<"U+11950", "U+11951", "U+11952", "U+11953", "U+11954", "U+11955", "U+11956", "U+11957", "U+11958", "U+11959">>,
      <<"U+11C50", "U+11C51", "U+11C52", "U+11C53", "U+11C54", "U+11C55", "U+11C56", "U+11C57", "U+11C58", "U+11C59">>,
      <<"U+11D50", "U+11D51", "U+11D52", "U+11D53", "U+11D54", "U+11D55", "U+11D56", "U+11D57", "U+11D58", "U+11D59">>,
      <<"U+11DA0", "U+11DA1", "U+11DA2", "U+11DA3", "U+11DA4", "U+11DA5", "U+11DA6", "U+11DA7", "U+11DA8", "U+11DA9">>,
      <<"U+16A60", "U+16A61", "U+16A62", "U+16A63", "U+16A64", "U+16A65", "U+16A66", "U+16A67", "U+16A68", "U+16A69">>,
      <<"U+16AC0", "U+16AC1", "U+16AC2", "U+16AC3", "U+16AC4", "U+16AC5", "U+16AC6", "U+16AC7", "U+16AC8", "U+16AC9">>,
      <<"U+16B50", "U+16B51", "U+16B52", "U+16B53", "U+16B54", "U+16B55", "U+16B56", "U+16B57", "U+16B58", "U+16B59">>,
      <<"U+1D7CE", "U+1D7CF", "U+1D7D0", "U+1D7D1", "U+1D7D2", "U+1D7D3", "U+1D7D4", "U+1D7D5", "U+1D7D6", "U+1D7D7">>,
      <<"U+1D7D8", "U+1D7D9", "U+1D7DA", "U+1D7DB", "U+1D7DC", "U+1D7DD", "U+1D7DE", "U+1D7DF", "U+1D7E0", "U+1D7E1">>,
      <<"U+1D7E2", "U+1D7E3", "U+1D7E4", "U+1D7E5", "U+1D7E6", "U+1D7E7", "U+1D7E8", "U+1D7E9", "U+1D7EA", "U+1D7EB">>,
      <<"U+1D7EC", "U+1D7ED", "U+1D7EE", "U+1D7EF", "U+1D7F0", "U+1D7F1", "U+1D7F2", "U+1D7F3", "U+1D7F4", "U+1D7F5">>,
      <<"U+1D7F6", "U+1D7F7", "U+1D7F8", "U+1D7F9", "U+1D7FA", "U+1D7FB", "U+1D7FC", "U+1D7FD", "U+1D7FE", "U+1D7FF">>,
      <<"U+1E140", "U+1E141", "U+1E142", "U+1E143", "U+1E144", "U+1E145", "U+1E146", "U+1E147", "U+1E148", "U+1E149">>,
      <<"U+1E2F0", "U+1E2F1", "U+1E2F2", "U+1E2F3", "U+1E2F4", "U+1E2F5", "U+1E2F6", "U+1E2F7", "U+1E2F8", "U+1E2F9">>,
      <<"U+1E950", "U+1E951", "U+1E952", "U+1E953", "U+1E954", "U+1E955", "U+1E956", "U+1E957", "U+1E958", "U+1E959">>,
      <<"U+1FBF0", "U+1FBF1", "U+1FBF2", "U+1FBF3", "U+1FBF4", "U+1FBF5", "U+1FBF6", "U+1FBF7", "U+1FBF8", "U+1FBF9">>>>

Digits == {DigitRows[r][i] : r \in DOMAIN DigitRows, i \in 1..10}

\* str.lower(): the characters it changes that are listed with their image,
\* <<character, image>>, and those whose image is at a fixed distance,
\* <<first, last, step, distance>>
LowerPairs ==
    {<<"A", <<"a">>>>, <<"B", <<"b">>>>, <<"C", <<"c">>>>,
     <<"D", <<"d">>>>, <<"E", <<"e">>>>, <<"F", <<"f">>>>, <<"G", <<"g">>>>,
     <<"H", <<"h">>>>, <<"I", <<"i">>>>, <<"J", <<"j">>>>, <<"K", <<"k">>>>,
     <<"L", <<"l">>>>, <<"M", <<"m">>>>, <<"N", <<"n">>>>, <<"O", <<"o">>>>,
     <<"P", <<"p">>>>, <<"Q", <<"q">>>>, <<"R", <<"r">>>>, <<"S", <<"s">>>>,
     <<"T", <<"t">>>>, <<"U", <<"u">>>>, <<"V", <<"v">>>>, <<"W", <<"w">>>>,
     <<"X", <<"x">>>>, <<"Y", <<"y">>>>, <<"Z", <<"z">>>>, <<"À", <<"à">>>>,
     <<"Á", <<"á">>>>, <<"Â", <<"â">>>>, <<"Ã", <<"ã">>>>, <<"Ä", <<"ä">>>>,
     <<"Å", <<"å">>>>, <<"Æ", <<"æ">>>>, <<"Ç", <<"ç">>>>, <<"È", <<"è">>>>,
     <<"É", <<"é">>>>, <<"Ê", <<"ê">>>>, <<"Ë", <<"ë">>>>, <<"Ì", <<"ì">>>>,
     <<"Í", <<"í">>>>, <<"Î", <<"î">>>>, <<"Ï", <<"ï">>>>, <<"Ð", <<"ð">>>>,
     <<"Ñ", <<"ñ">>>>, <<"Ò", <<"ò">>>>, <<"Ó", <<"ó">>>>, <<"Ô", <<"ô">>>>,
     <<"Õ", <<"õ">>>>, <<"Ö", <<"ö">>>>, <<"Ø", <<"ø">>>>, <<"Ù", <<"ù">>>>,
     <<"Ú", <<"ú">>>>, <<"Û", <<"û">>>>, <<"Ü", <<"ü">>>>, <<"Ý", <<"ý">>>>,
     <<"Þ", <<"þ">>>>, <<"U+0130", <<"i", "U+0307">>>>, <<"U+0178", <<"ÿ">>>>,
     <<"U+1E9E", <<"ß">>>>, <<"U+212A", <<"k">>>>, <<"U+212B", <<"å">>>>}

LowerShifts ==
    <<<<\h0100, \h012E, 2, 1>>, <<\h0132, \h0136, 2, 1>>,
      <<\h0139, \h0147, 2, 1>>, <<\h014A, \h0176, 2, 1>>,
      <<\h0179, \h017D, 2, 1>>, <<\h0181, \h0181, 1, 210>>,
      <<\h0182, \h0184, 2, 1>>, <<\h0186, \h0186, 1, 206>>,
      <<\h0187, \h0187, 1, 1>>, <<\h0189, \h018A, 1, 205>>,
      <<\h018B, \h018B, 1, 1>>, <<\h018E, \h018E, 1, 79>>,
      <<\h018F, \h018F, 1, 202>>, <<\h0190, \h0190, 1, 203>>,
      <<\h0191, \h0191, 1, 1>>, <<\h0193, \h0193, 1, 205>>,
      <<\h0194, \h0194, 1, 207>>, <<\h0196, \h0196, 1, 211>>,
      <<\h0197, \h0197, 1, 209>>, <<\h0198, \h0198, 1, 1>>,
      <<\h019C, \h019C, 1, 211>>, <<\h019D, \h019D, 1, 213>>,
      <<\h019F, \h019F, 1, 214>>, <<\h01A0, \h01A4, 2, 1>>,
      <<\h01A6, \h01A6, 1, 218>>, <<\h01A7, \h01A7, 1, 1>>,
      <<\h01A9, \h01A9, 1, 218>>, <<\h01AC, \h01AC, 1, 1>>,
      <<\h01AE, \h01AE, 1, 218>>, <<\h01AF, \h01AF, 1, 1>>,
      <<\h01B1, \h01B2, 1, 217>>, <<\h01B3, \h01B5, 2, 1>>,
      <<\h01B7, \h01B7, 1, 219>>, <<\h01B8, \h01B8, 1, 1>>,
      <<\h01BC, \h01BC, 1, 1>>, <<\h01C4, \h01C4, 1, 2>>,
      <<\h01C5, \h01C5, 1, 1>>, <<\h01C7, \h01C7, 1, 2>>,
      <<\h01C8, \h01C8, 1, 1>>, <<\h01CA, \h01CA, 1, 2>>,
      <<\h01CB, \h01DB, 2, 1>>, <<\h01DE, \h01EE, 2, 1>>,
      <<\h01F1, \h01F1, 1, 2>>, <<\h01F2, \h01F4, 2, 1>>,
      <<\h01F6, \h01F6, 1, -97>>, <<\h01F7, \h01F7, 1, -56>>,
      <<\h01F8, \h021E, 2, 1>>, <<\h0220, \h0220, 1, -130>>,
      <<\h0222, \h0232, 2, 1>>, <<\h023A, \h023A, 1, 10795>>,
      <<\h023B, \h023B, 1, 1>>, <<\h023D, \h023D, 1, -163>>,
      <<\h023E, \h023E, 1, 10792>>, <<\h0241, \h0241, 1, 1>>,
      <<\h0243, \h0243, 1, -195>>, <<\h0244, \h0244, 1, 69>>,
      <<\h0245, \h0245, 1, 71>>, <<\h0246, \h024E, 2, 1>>,
      <<\h0370, \h0372, 2, 1>>, <<\h0376, \h0376, 1, 1>>,
      <<\h037F, \h037F, 1, 116>>, <<\h0386, \h0386, 1, 38>>,
      <<\h0388, \h038A, 1, 37>>, <<\h038C, \h038C, 1, 64>>,
      <<\h038E, \h038F, 1, 63>>, <<\h0391, \h03A1, 1, 32>>,
      <<\h03A3, \h03AB, 1, 32>>, <<\h03CF, \h03CF, 1, 8>>,
      <<\h03D8, \h03EE, 2, 1>>, <<\h03F4, \h03F4, 1, -60>>,
      <<\h03F7, \h03F7, 1, 1>>, <<\h03F9, \h03F9, 1, -7>>,
      <<\h03FA, \h03FA, 1, 1>>, <<\h03FD, \h03FF, 1, -130>>,
      <<\h0400, \h040F, 1, 80>>, <<\h0410, \h042F, 1, 32>>,
      <<\h0460, \h0480, 2, 1>>, <<\h048A, \h04BE, 2, 1>>,
      <<\h04C0, \h04C0, 1, 15>>, <<\h04C1, \h04CD, 2, 1>>,
      <<\h04D0, \h052E, 2, 1>>, <<\h0531, \h0556, 1, 48>>,
      <<\h10A0, \h10C5, 1, 7264>>, <<\h10C7, \h10C7, 1, 7264>>,
      <<\h10CD, \h10CD, 1, 7264>>, <<\h13A0, \h13EF, 1, 38864>>,
      <<\h13F0, \h13F5, 1, 8>>, <<\h1C90, \h1CBA, 1, -3008>>,
      <<\h1CBD, \h1CBF, 1, -3008>>, <<\h1E00, \h1E94, 2, 1>>,
      <<\h1EA0, \h1EFE, 2, 1>>, <<\h1F08, \h1F0F, 1, -8>>,
      <<\h1F18, \h1F1D, 1, -8>>, <<\h1F28, \h1F2F, 1, -8>>,
      <<\h1F38, \h1F3F, 1, -8>>, <<\h1F48, \h1F4D, 1, -8>>,
      <<\h1F59, \h1F5F, 2, -8>>, <<\h1F68, \h1F6F, 1, -8>>,
      <<\h1F88, \h1F8F, 1, -8>>, <<\h1F98, \h1F9F, 1, -8>>,
      <<\h1FA8, \h1FAF, 1, -8>>, <<\h1FB8, \h1FB9, 1, -8>>,
      <<\h1FBA, \h1FBB, 1, -74>>, <<\h1FBC, \h1FBC, 1, -9>>,
      <<\h1FC8, \h1FCB, 1, -86>>, <<\h1FCC, \h1FCC, 1, -9>>,
      <<\h1FD8, \h1FD9, 1, -8>>, <<\h1FDA, \h1FDB, 1, -100>>,
      <<\h1FE8, \h1FE9, 1, -8>>, <<\h1FEA, \h1FEB, 1, -112>>,
      <<\h1FEC, \h1FEC, 1, -7>>, <<\h1FF8, \h1FF9, 1, -128>>,
      <<\h1FFA, \h1FFB, 1, -126>>, <<\h1FFC, \h1FFC, 1, -9>>,
      <<\h2126, \h2126, 1, -7517>>, <<\h2132, \h2132, 1, 28>>,
      <<\h2160, \h216F, 1, 16>>, <<\h2183, \h2183, 1, 1>>,
      <<\h24B6, \h24CF, 1, 26>>, <<\h2C00, \h2C2F, 1, 48>>,
      <<\h2C60, \h2C60, 1, 1>>, <<\h2C62, \h2C62, 1, -10743>>,
      <<\h2C63, \h2C63, 1, -3814>>, <<\h2C64, \h2C64, 1, -10727>>,
      <<\h2C67, \h2C6B, 2, 1>>, <<\h2C6D, \h2C6D, 1, -10780>>,
      <<\h2C6E, \h2C6E, 1, -10749>>, <<\h2C6F, \h2C6F, 1, -10783>>,
      <<\h2C70, \h2C70, 1, -10782>>, <<\h2C72, \h2C72, 1, 1>>,
      <<\h2C75, \h2C75, 1, 1>>, <<\h2C7E, \h2C7F, 1, -10815>>,
      <<\h2C80, \h2CE2, 2, 1>>, <<\h2CEB, \h2CED, 2, 1>>,
      <<\h2CF2, \h2CF2, 1, 1>>, <<\hA640, \hA66C, 2, 1>>,
      <<\hA680, \hA69A, 2, 1>>, <<\hA722, \hA72E, 2, 1>>,
      <<\hA732, \hA76E, 2, 1>>, <<\hA779, \hA77B, 2, 1>>,
      <<\hA77D, \hA77D, 1, -35332>>, <<\hA77E, \hA786, 2, 1>>,
      <<\hA78B, \hA78B, 1, 1>>, <<\hA78D, \hA78D, 1, -42280>>,
      <<\hA790, \hA792, 2, 1>>, <<\hA796, \hA7A8, 2, 1>>,
      <<\hA7AA, \hA7AA, 1, -42308>>, <<\hA7AB, \hA7AB, 1, -42319>>,
      <<\hA7AC, \hA7AC, 1, -42315>>, <<\hA7AD, \hA7AD, 1, -42305>>,
      <<\hA7AE, \hA7AE, 1, -42308>>, <<\hA7B0, \hA7B0, 1, -42258>>,
      <<\hA7B1, \hA7B1, 1, -42282>>, <<\hA7B2, \hA7B2, 1, -42261>>,
      <<\hA7B3, \hA7B3, 1, 928>>, <<\hA7B4, \hA7C2, 2, 1>>,
      <<\hA7C4, \hA7C4, 1, -48>>, <<\hA7C5, \hA7C5, 1, -42307>>,
      <<\hA7C6, \hA7C6, 1, -35384>>, <<\hA7C7, \hA7C9, 2, 1>>,
      <<\hA7D0, \hA7D0, 1, 1>>, <<\hA7D6, \hA7D8, 2, 1>>,
      <<\hA7F5, \hA7F5, 1, 1>>, <<\hFF21, \hFF3A, 1, 32>>,
      <<\h10400, \h10427, 1, 40>>, <<\h104B0, \h104D3, 1, 40>>,
      <<\h10570, \h1057A, 1, 39>>, <<\h1057C, \h1058A, 1, 39>>,
      <<\h1058C, \h10592, 1, 39>>, <<\h10594, \h10595, 1, 39>>,
      <<\h10C80, \h10CB2, 1, 64>>, <<\h118A0, \h118BF, 1, 32>>,
      <<\h16E40, \h16E5F, 1, 32>>, <<\h1E900, \h1E921, 1, 34>>>>

\* str.upper(): the characters it changes that are listed with their image,
\* <<character, image>>, and those whose image is at a fixed distance,
\* <<first, last, step, distance>>
UpperPairs ==
    {<<"a", <<"A">>>>, <<"b", <<"B">>>>, <<"c", <<"C">>>>,
     <<"d", <<"D">>>>, <<"e", <<"E">>>>, <<"f", <<"F">>>>, <<"g", <<"G">>>>,
     <<"h", <<"H">>>>, <<"i", <<"I">>>>, <<"j", <<"J">>>>, <<"k", <<"K">>>>,
     <<"l", <<"L">>>>, <<"m", <<"M">>>>, <<"n", <<"N">>>>, <<"o", <<"O">>>>,
     <<"p", <<"P">>>>, <<"q", <<"Q">>>>, <<"r", <<"R">>>>, <<"s", <<"S">>>>,
     <<"t", <<"T">>>>, <<"u", <<"U">>>>, <<"v", <<"V">>>>, <<"w", <<"W">>>>,
     <<"x", <<"X">>>>, <<"y", <<"Y">>>>, <<"z", <<"Z">>>>,
     <<"µ", <<"U+039C">>>>, <<"ß", <<"S", "S">>>>, <<"à", <<"À">>>>,
     <<"á", <<"Á">>>>, <<"â", <<"Â">>>>, <<"ã", <<"Ã">>>>, <<"ä", <<"Ä">>>>,
     <<"å", <<"Å">>>>, <<"æ", <<"Æ">>>>, <<"ç", <<"Ç">>>>, <<"è", <<"È">>>>,
     <<"é", <<"É">>>>, <<"ê", <<"Ê">>>>, <<"ë", <<"Ë">>>>, <<"ì", <<"Ì">>>>,
     <<"í", <<"Í">>>>, <<"î", <<"Î">>>>, <<"ï", <<"Ï">>>>, <<"ð", <<"Ð">>>>,
     <<"ñ", <<"Ñ">>>>, <<"ò", <<"Ò">>>>, <<"ó", <<"Ó">>>>, <<"ô", <<"Ô">>>>,
     <<"õ", <<"Õ">>>>, <<"ö", <<"Ö">>>>, <<"ø", <<"Ø">>>>, <<"ù", <<"Ù">>>>,
     <<"ú", <<"Ú">>>>, <<"û", <<"Û">>>>, <<"ü", <<"Ü">>>>, <<"ý", <<"Ý">>>>,
     <<"þ", <<"Þ">>>>, <<"ÿ", <<"U+0178">>>>, <<"U+0131", <<"I">>>>,
     <<"U+0149", <<"U+02BC", "N">>>>, <<"U+017F", <<"S">>>>,
     <<"U+01F0", <<"J", "U+030C">>>>,
     <<"U+0390", <<"U+0399", "U+0308", "U+0301">>>>,
     <<"U+03B0", <<"U+03A5", "U+0308", "U+0301">>>>,
     <<"U+0587", <<"U+0535", "U+0552">>>>, <<"U+1E96", <<"H", "U+0331">>>>,
     <<"U+1E97", <<"T", "U+0308">>>>, <<"U+1E98", <<"W", "U+030A">>>>,
     <<"U+1E99", <<"Y", "U+030A">>>>, <<"U+1E9A", <<"A", "U+02BE">>>>,
     <<"U+1F50", <<"U+03A5", "U+0313">>>>,
     <<"U+1F52", <<"U+03A5", "U+0313", "U+0300">>>>,
     <<"U+1F54", <<"U+03A5", "U+0313", "U+0301">>>>,
     <<"U+1F56", <<"U+03A5", "U+0313", "U+0342">>>>,
     <<"U+1F80", <<"U+1F08", "U+0399">>>>,
     <<"U+1F81", <<"U+1F09", "U+0399">>>>,
     <<"U+1F82", <<"U+1F0A", "U+0399">>>>,
     <<"U+1F83", <<"U+1F0B", "U+0399">>>>,
     <<"U+1F84", <<"U+1F0C", "U+0399">>>>,
     <<"U+1F85", <<"U+1F0D", "U+0399">>>>,
     <<"U+1F86", <<"U+1F0E", "U+0399">>>>,
     <<"U+1F87", <<"U+1F0F", "U+0399">>>>,
     <<"U+1F88", <<"U+1F08", "U+0399">>>>,
     <<"U+1F89", <<"U+1F09", "U+0399">>>>,
     <<"U+1F8A", <<"U+1F0A", "U+0399">>>>,
     <<"U+1F8B", <<"U+1F0B", "U+0399">>>>,
     <<"U+1F8C", <<"U+1F0C", "U+0399">>>>,
     <<"U+1F8D", <<"U+1F0D", "U+0399">>>>,
     <<"U+1F8E", <<"U+1F0E", "U+0399">>>>,
     <<"U+1F8F", <<"U+1F0F", "U+0399">>>>,
     <<"U+1F90", <<"U+1F28", "U+0399">>>>,
     <<"U+1F91", <<"U+1F29", "U+0399">>>>,
     <<"U+1F92", <<"U+1F2A", "U+0399">>>>,
     <<"U+1F93", <<"U+1F2B", "U+0399">>>>,
     <<"U+1F94", <<"U+1F2C", "U+0399">>>>,
     <<"U+1F95", <<"U+1F2D", "U+0399">>>>,
     <<"U+1F96", <<"U+1F2E", "U+0399">>>>,
     <<"U+1F97", <<"U+1F2F", "U+0399">>>>,
     <<"U+1F98", <<"U+1F28", "U+0399">>>>,
     <<"U+1F99", <<"U+1F29", "U+0399">>>>,
     <<"U+1F9A", <<"U+1F2A", "U+0399">>>>,
     <<"U+1F9B", <<"U+1F2B", "U+0399">>>>,
     <<"U+1F9C", <<"U+1F2C", "U+0399">>>>,
     <<"U+1F9D", <<"U+1F2D", "U+0399">>>>,
     <<"U+1F9E", <<"U+1F2E", "U+0399">>>>,
     <<"U+1F9F", <<"U+1F2F", "U+0399">>>>,
     <<"U+1FA0", <<"U+1F68", "U+0399">>>>,
     <<"U+1FA1", <<"U+1F69", "U+0399">>>>,
     <<"U+1FA2", <<"U+1F6A", "U+0399">>>>,
     <<"U+1FA3", <<"U+1F6B", "U+0399">>>>,
     <<"U+1FA4", <<"U+1F6C", "U+0399">>>>,
     <<"U+1FA5", <<"U+1F6D", "U+0399">>>>,
     <<"U+1FA6", <<"U+1F6E", "U+0399">>>>,
     <<"U+1FA7", <<"U+1F6F", "U+0399">>>>,
     <<"U+1FA8", <<"U+1F68", "U+0399">>>>,
     <<"U+1FA9", <<"U+1F69", "U+0399">>>>,
     <<"U+1FAA", <<"U+1F6A", "U+0399">>>>,
     <<"U+1FAB", <<"U+1F6B", "U+0399">>>>,
     <<"U+1FAC", <<"U+1F6C", "U+0399">>>>,
     <<"U+1FAD", <<"U+1F6D", "U+0399">>>>,
     <<"U+1FAE", <<"U+1F6E", "U+0399">>>>,
     <<"U+1FAF", <<"U+1F6F", "U+0399">>>>,
     <<"U+1FB2", <<"U+1FBA", "U+0399">>>>,
     <<"U+1FB3", <<"U+0391", "U+0399">>>>,
     <<"U+1FB4", <<"U+0386", "U+0399">>>>,
     <<"U+1FB6", <<"U+0391", "U+0342">>>>,
     <<"U+1FB7", <<"U+0391", "U+0342", "U+0399">>>>,
     <<"U+1FBC", <<"U+0391", "U+0399">>>>,
     <<"U+1FC2", <<"U+1FCA", "U+0399">>>>,
     <<"U+1FC3", <<"U+0397", "U+0399">>>>,
     <<"U+1FC4", <<"U+0389", "U+0399">>>>,
     <<"U+1FC6", <<"U+0397", "U+0342">>>>,
     <<"U+1FC7", <<"U+0397", "U+0342", "U+0399">>>>,
     <<"U+1FCC", <<"U+0397", "U+0399">>>>,
     <<"U+1FD2", <<"U+0399", "U+0308", "U+0300">>>>,
     <<"U+1FD3", <<"U+0399", "U+0308", "U+0301">>>>,
     <<"U+1FD6", <<"U+0399", "U+0342">>>>,
     <<"U+1FD7", <<"U+0399", "U+0308", "U+0342">>>>,
     <<"U+1FE2", <<"U+03A5", "U+0308", "U+0300">>>>,
     <<"U+1FE3", <<"U+03A5", "U+0308", "U+0301">>>>,
     <<"U+1FE4", <<"U+03A1", "U+0313">>>>,
     <<"U+1FE6", <<"U+03A5", "U+0342">>>>,
     <<"U+1FE7", <<"U+03A5", "U+0308", "U+0342">>>>,
     <<"U+1FF2", <<"U+1FFA", "U+0399">>>>,
     <<"U+1FF3", <<"U+03A9", "U+0399">>>>,
     <<"U+1FF4", <<"U+038F", "U+0399">>>>,
     <<"U+1FF6", <<"U+03A9", "U+0342">>>>,
     <<"U+1FF7", <<"U+03A9", "U+0342", "U+0399">>>>,
     <<"U+1FFC", <<"U+03A9", "U+0399">>>>, <<"U+FB00", <<"F", "F">>>>,
     <<"U+FB01", <<"F", "I">>>>, <<"U+FB02", <<"F", "L">>>>,
     <<"U+FB03", <<"F", "F", "I">>>>, <<"U+FB04", <<"F", "F", "L">>>>,
     <<"U+FB05", <<"S", "T">>>>, <<"U+FB06", <<"S", "T">>>>,
     <<"U+FB13", <<"U+0544", "U+0546">>>>,
     <<"U+FB14", <<"U+0544", "U+0535">>>>,
     <<"U+FB15", <<"U+0544", "U+053B">>>>,
     <<"U+FB16", <<"U+054E", "U+0546">>>>,
     <<"U+FB17", <<"U+0544", "U+053D">>>>}

UpperShifts ==
    <<<<\h0101, \h012F, 2, -1>>, <<\h0133, \h0137, 2, -1>>,
      <<\h013A, \h0148, 2, -1>>, <<\h014B, \h0177, 2, -1>>,
      <<\h017A, \h017E, 2, -1>>, <<\h0180, \h0180, 1, 195>>,
      <<\h0183, \h0185, 2, -1>>, <<\h0188, \h0188, 1, -1>>,
      <<\h018C, \h018C, 1, -1>>, <<\h0192, \h0192, 1, -1>>,
      <<\h0195, \h0195, 1, 97>>, <<\h0199, \h0199, 1, -1>>,
      <<\h019A, \h019A, 1, 163>>, <<\h019E, \h019E, 1, 130>>,
      <<\h01A1, \h01A5, 2, -1>>, <<\h01A8, \h01A8, 1, -1>>,
      <<\h01AD, \h01AD, 1, -1>>, <<\h01B0, \h01B0, 1, -1>>,
      <<\h01B4, \h01B6, 2, -1>>, <<\h01B9, \h01B9, 1, -1>>,
      <<\h01BD, \h01BD, 1, -1>>, <<\h01BF, \h01BF, 1, 56>>,
      <<\h01C5, \h01C5, 1, -1>>, <<\h01C6, \h01C6, 1, -2>>,
      <<\h01C8, \h01C8, 1, -1>>, <<\h01C9, \h01C9, 1, -2>>,
      <<\h01CB, \h01CB, 1, -1>>, <<\h01CC, \h01CC, 1, -2>>,
      <<\h01CE, \h01DC, 2, -1>>, <<\h01DD, \h01DD, 1, -79>>,
      <<\h01DF, \h01EF, 2, -1>>, <<\h01F2, \h01F2, 1, -1>>,
      <<\h01F3, \h01F3, 1, -2>>, <<\h01F5, \h01F5, 1, -1>>,
      <<\h01F9, \h021F, 2, -1>>, <<\h0223, \h0233, 2, -1>>,
      <<\h023C, \h023C, 1, -1>>, <<\h023F, \h0240, 1, 10815>>,
      <<\h0242, \h0242, 1, -1>>, <<\h0247, \h024F, 2, -1>>,
      <<\h0250, \h0250, 1, 10783>>, <<\h0251, \h0251, 1, 10780>>,
      <<\h0252, \h0252, 1, 10782>>, <<\h0253, \h0253, 1, -210>>,
      <<\h0254, \h0254, 1, -206>>, <<\h0256, \h0257, 1, -205>>,
      <<\h0259, \h0259, 1, -202>>, <<\h025B, \h025B, 1, -203>>,
      <<\h025C, \h025C, 1, 42319>>, <<\h0260, \h0260, 1, -205>>,
      <<\h0261, \h0261, 1, 42315>>, <<\h0263, \h0263, 1, -207>>,
      <<\h0265, \h0265, 1, 42280>>, <<\h0266, \h0266, 1, 42308>>,
      <<\h0268, \h0268, 1, -209>>, <<\h0269, \h0269, 1, -211>>,
      <<\h026A, \h026A, 1, 42308>>, <<\h026B, \h026B, 1, 10743>>,
      <<\h026C, \h026C, 1, 42305>>, <<\h026F, \h026F, 1, -211>>,
      <<\h0271, \h0271, 1, 10749>>, <<\h0272, \h0272, 1, -213>>,
      <<\h0275, \h0275, 1, -214>>, <<\h027D, \h027D, 1, 10727>>,
      <<\h0280, \h0280, 1, -218>>, <<\h0282, \h0282, 1, 42307>>,
      <<\h0283, \h0283, 1, -218>>, <<\h0287, \h0287, 1, 42282>>,
      <<\h0288, \h0288, 1, -218>>, <<\h0289, \h0289, 1, -69>>,
      <<\h028A, \h028B, 1, -217>>, <<\h028C, \h028C, 1, -71>>,
      <<\h0292, \h0292, 1, -219>>, <<\h029D, \h029D, 1, 42261>>,
      <<\h029E, \h029E, 1, 42258>>, <<\h0345, \h0345, 1, 84>>,
      <<\h0371, \h0373, 2, -1>>, <<\h0377, \h0377, 1, -1>>,
      <<\h037B, \h037D, 1, 130>>, <<\h03AC, \h03AC, 1, -38>>,
      <<\h03AD, \h03AF, 1, -37>>, <<\h03B1, \h03C1, 1, -32>>,
      <<\h03C2, \h03C2, 1, -31>>, <<\h03C3, \h03CB, 1, -32>>,
      <<\h03CC, \h03CC, 1, -64>>, <<\h03CD, \h03CE, 1, -63>>,
      <<\h03D0, \h03D0, 1, -62>>, <<\h03D1, \h03D1, 1, -57>>,
      <<\h03D5, \h03D5, 1, -47>>, <<\h03D6, \h03D6, 1, -54>>,
      <<\h03D7, \h03D7, 1, -8>>, <<\h03D9, \h03EF, 2, -1>>,
      <<\h03F0, \h03F0, 1, -86>>, <<\h03F1, \h03F1, 1, -80>>,
      <<\h03F2, \h03F2, 1, 7>>, <<\h03F3, \h03F3, 1, -116>>,
      <<\h03F5, \h03F5, 1, -96>>, <<\h03F8, \h03F8, 1, -1>>,
      <<\h03FB, \h03FB, 1, -1>>, <<\h0430, \h044F, 1, -32>>,
      <<\h0450, \h045F, 1, -80>>, <<\h0461, \h0481, 2, -1>>,
      <<\h048B, \h04BF, 2, -1>>, <<\h04C2, \h04CE, 2, -1>>,
      <<\h04CF, \h04CF, 1, -15>>, <<\h04D1, \h052F, 2, -1>>,
      <<\h0561, \h0586, 1, -48>>, <<\h10D0, \h10FA, 1, 3008>>,
      <<\h10FD, \h10FF, 1, 3008>>, <<\h13F8, \h13FD, 1, -8>>,
      <<\h1C80, \h1C80, 1, -6254>>, <<\h1C81, \h1C81, 1, -6253>>,
      <<\h1C82, \h1C82, 1, -6244>>, <<\h1C83, \h1C84, 1, -6242>>,
      <<\h1C85, \h1C85, 1, -6243>>, <<\h1C86, \h1C86, 1, -6236>>,
      <<\h1C87, \h1C87, 1, -6181>>, <<\h1C88, \h1C88, 1, 35266>>,
      <<\h1D79, \h1D79, 1, 35332>>, <<\h1D7D, \h1D7D, 1, 3814>>,
      <<\h1D8E, \h1D8E, 1, 35384>>, <<\h1E01, \h1E95, 2, -1>>,
      <<\h1E9B, \h1E9B, 1, -59>>, <<\h1EA1, \h1EFF, 2, -1>>,
      <<\h1F00, \h1F07, 1, 8>>, <<\h1F10, \h1F15, 1, 8>>,
      <<\h1F20, \h1F27, 1, 8>>, <<\h1F30, \h1F37, 1, 8>>,
      <<\h1F40, \h1F45, 1, 8>>, <<\h1F51, \h1F57, 2, 8>>,
      <<\h1F60, \h1F67, 1, 8>>, <<\h1F70, \h1F71, 1, 74>>,
      <<\h1F72, \h1F75, 1, 86>>, <<\h1F76, \h1F77, 1, 100>>,
      <<\h1F78, \h1F79, 1, 128>>, <<\h1F7A, \h1F7B, 1, 112>>,
      <<\h1F7C, \h1F7D, 1, 126>>, <<\h1FB0, \h1FB1, 1, 8>>,
      <<\h1FBE, \h1FBE, 1, -7205>>, <<\h1FD0, \h1FD1, 1, 8>>,
      <<\h1FE0, \h1FE1, 1, 8>>, <<\h1FE5, \h1FE5, 1, 7>>,
      <<\h214E, \h214E, 1, -28>>, <<\h2170, \h217F, 1, -16>>,
      <<\h2184, \h2184, 1, -1>>, <<\h24D0, \h24E9, 1, -26>>,
      <<\h2C30, \h2C5F, 1, -48>>, <<\h2C61, \h2C61, 1, -1>>,
      <<\h2C65, \h2C65, 1, -10795>>, <<\h2C66, \h2C66, 1, -10792>>,
      <<\h2C68, \h2C6C, 2, -1>>, <<\h2C73, \h2C73, 1, -1>>,
      <<\h2C76, \h2C76, 1, -1>>, <<\h2C81, \h2CE3, 2, -1>>,
      <<\h2CEC, \h2CEE, 2, -1>>, <<\h2CF3, \h2CF3, 1, -1>>,
      <<\h2D00, \h2D25, 1, -7264>>, <<\h2D27, \h2D27, 1, -7264>>,
      <<\h2D2D, \h2D2D, 1, -7264>>, <<\hA641, \hA66D, 2, -1>>,
      <<\hA681, \hA69B, 2, -1>>, <<\hA723, \hA72F, 2, -1>>,
      <<\hA733, \hA76F, 2, -1>>, <<\hA77A, \hA77C, 2, -1>>,
      <<\hA77F, \hA787, 2, -1>>, <<\hA78C, \hA78C, 1, -1>>,
      <<\hA791, \hA793, 2, -1>>, <<\hA794, \hA794, 1, 48>>,
      <<\hA797, \hA7A9, 2, -1>>, <<\hA7B5, \hA7C3, 2, -1>>,
      <<\hA7C8, \hA7CA, 2, -1>>, <<\hA7D1, \hA7D1, 1, -1>>,
      <<\hA7D7, \hA7D9, 2, -1>>, <<\hA7F6, \hA7F6, 1, -1>>,
      <<\hAB53, \hAB53, 1, -928>>, <<\hAB70, \hABBF, 1, -38864>>,
      <<\hFF41, \hFF5A, 1, -32>>, <<\h10428, \h1044F, 1, -40>>,
      <<\h104D8, \h104FB, 1, -40>>, <<\h10597, \h105A1, 1, -39>>,
      <<\h105A3, \h105B1, 1, -39>>, <<\h105B3, \h105B9, 1, -39>>,
      <<\h105BB, \h105BC, 1, -39>>, <<\h10CC0, \h10CF2, 1, -64>>,
      <<\h118C0, \h118DF, 1, -32>>, <<\h16E60, \h16E7F, 1, -32>>,
      <<\h1E922, \h1E943, 1, -34>>>>

\* The run of the shifts S that holds code point n, 0 when there is none
ShiftOf(n, S) ==
    IF \E i \in DOMAIN S : S[i][1] <= n /\ n <= S[i][2] /\ (n - S[i][1]) % S[i][3] = 0
    THEN CHOOSE i \in DOMAIN S : S[i][1] <= n /\ n <= S[i][2] /\ (n - S[i][1]) % S[i][3] = 0
    ELSE 0

\* The image of character c under the case map given by P and S: a string
CaseMapped(c, P, S) ==
    IF \E p \in P : p[1] = c THEN (CHOOSE p \in P : p[1] = c)[2]
    ELSE LET n == CodePoint(c)
             i == ShiftOf(n, S)
         IN  IF i = 0 THEN <<c>> ELSE <<Char(n + S[i][4])>>

\* The characters str.lower() changes, and those str.upper() changes
UpperCase ==
    {p[1] : p \in LowerPairs}
        \cup {Char(n) : n \in {m \in UNION {LowerShifts[i][1]..LowerShifts[i][2] :
                                            i \in DOMAIN LowerShifts} :
                                 ShiftOf(m, LowerShifts) # 0}}

LowerCase ==
    {p[1] : p \in UpperPairs}
        \cup {Char(n) : n \in {m \in UNION {UpperShifts[i][1]..UpperShifts[i][2] :
                                            i \in DOMAIN UpperShifts} :
                                 ShiftOf(m, UpperShifts) # 0}}

\* c.lower() and c.upper() for a character c: a string
LowerChar(c) == IF c \in UpperCase THEN CaseMapped(c, LowerPairs, LowerShifts) ELSE <<c>>

UpperChar(c) == IF c \in LowerCase THEN CaseMapped(c, UpperPairs, UpperShifts) ELSE <<c>>

\* The cased characters that are not case-ignorable, and the case-ignorable
\* characters: str.lower() turns a capital sigma into a final sigma by them
CasedRanges ==
    <<<<\h0100, \h01BA>>, <<\h01BC, \h01BF>>,
      <<\h01C4, \h0293>>, <<\h0295, \h02AF>>, <<\h0370, \h0373>>,
      <<\h0376, \h0377>>, <<\h037B, \h037D>>, <<\h037F, \h037F>>,
      <<\h0386, \h0386>>, <<\h0388, \h038A>>, <<\h038C, \h038C>>,
      <<\h038E, \h03A1>>, <<\h03A3, \h03F5>>, <<\h03F7, \h0481>>,
      <<\h048A, \h052F>>, <<\h0531, \h0556>>, <<\h0560, \h0588>>,
      <<\h10A0, \h10C5>>, <<\h10C7, \h10C7>>, <<\h10CD, \h10CD>>,
      <<\h10D0, \h10FA>>, <<\h10FD, \h10FF>>, <<\h13A0, \h13F5>>,
      <<\h13F8, \h13FD>>, <<\h1C80, \h1C88>>, <<\h1C90, \h1CBA>>,
      <<\h1CBD, \h1CBF>>, <<\h1D00, \h1D2B>>, <<\h1D6B, \h1D77>>,
      <<\h1D79, \h1D9A>>, <<\h1E00, \h1F15>>, <<\h1F18, \h1F1D>>,
      <<\h1F20, \h1F45>>, <<\h1F48, \h1F4D>>, <<\h1F50, \h1F57>>,
      <<\h1F59, \h1F59>>, <<\h1F5B, \h1F5B>>, <<\h1F5D, \h1F5D>>,
      <<\h1F5F, \h1F7D>>, <<\h1F80, \h1FB4>>, <<\h1FB6, \h1FBC>>,
      <<\h1FBE, \h1FBE>>, <<\h1FC2, \h1FC4>>, <<\h1FC6, \h1FCC>>,
      <<\h1FD0, \h1FD3>>, <<\h1FD6, \h1FDB>>, <<\h1FE0, \h1FEC>>,
      <<\h1FF2, \h1FF4>>, <<\h1FF6, \h1FFC>>, <<\h2102, \h2102>>,
      <<\h2107, \h2107>>, <<\h210A, \h2113>>, <<\h2115, \h2115>>,
      <<\h2119, \h211D>>, <<\h2124, \h2124>>, <<\h2126, \h2126>>,
      <<\h2128, \h2128>>, <<\h212A, \h212D>>, <<\h212F, \h2134>>,
      <<\h2139, \h2139>>, <<\h213C, \h213F>>, <<\h2145, \h2149>>,
      <<\h214E, \h214E>>, <<\h2160, \h217F>>, <<\h2183, \h2184>>,
      <<\h24B6, \h24E9>>, <<\h2C00, \h2C7B>>, <<\h2C7E, \h2CE4>>,
      <<\h2CEB, \h2CEE>>, <<\h2CF2, \h2CF3>>, <<\h2D00, \h2D25>>,
      <<\h2D27, \h2D27>>, <<\h2D2D, \h2D2D>>, <<\hA640, \hA66D>>,
      <<\hA680, \hA69B>>, <<\hA722, \hA76F>>, <<\hA771, \hA787>>,
      <<\hA78B, \hA78E>>, <<\hA790, \hA7CA>>, <<\hA7D0, \hA7D1>>,
      <<\hA7D3, \hA7D3>>, <<\hA7D5, \hA7D9>>, <<\hA7F5, \hA7F6>>,
      <<\hA7FA, \hA7FA>>, <<\hAB30, \hAB5A>>, <<\hAB60, \hAB68>>,
      <<\hAB70, \hABBF>>, <<\hFB00, \hFB06>>, <<\hFB13, \hFB17>>,
      <<\hFF21, \hFF3A>>, <<\hFF41, \hFF5A>>, <<\h10400, \h1044F>>,
      <<\h104B0, \h104D3>>, <<\h104D8, \h104FB>>, <<\h10570, \h1057A>>,
      <<\h1057C, \h1058A>>, <<\h1058C, \h10592>>, <<\h10594, \h10595>>,
      <<\h10597, \h105A1>>, <<\h105A3, \h105B1>>, <<\h105B3, \h105B9>>,
      <<\h105BB, \h105BC>>, <<\h10C80, \h10CB2>>, <<\h10CC0, \h10CF2>>,
      <<\h118A0, \h118DF>>, <<\h16E40, \h16E7F>>, <<\h1D400, \h1D454>>,
      <<\h1D456, \h1D49C>>, <<\h1D49E, \h1D49F>>, <<\h1D4A2, \h1D4A2>>,
      <<\h1D4A5, \h1D4A6>>, <<\h1D4A9, \h1D4AC>>, <<\h1D4AE, \h1D4B9>>,
      <<\h1D4BB, \h1D4BB>>, <<\h1D4BD, \h1D4C3>>, <<\h1D4C5, \h1D505>>,
      <<\h1D507, \h1D50A>>, <<\h1D50D, \h1D514>>, <<\h1D516, \h1D51C>>,
      <<\h1D51E, \h1D539>>, <<\h1D53B, \h1D53E>>, <<\h1D540, \h1D544>>,
      <<\h1D546, \h1D546>>, <<\h1D54A, \h1D550>>, <<\h1D552, \h1D6A5>>,
      <<\h1D6A8, \h1D6C0>>, <<\h1D6C2, \h1D6DA>>, <<\h1D6DC, \h1D6FA>>,
      <<\h1D6FC, \h1D714>>, <<\h1D716, \h1D734>>, <<\h1D736, \h1D74E>>,
      <<\h1D750, \h1D76E>>, <<\h1D770, \h1D788>>, <<\h1D78A, \h1D7A8>>,
      <<\h1D7AA, \h1D7C2>>, <<\h1D7C4, \h1D7CB>>, <<\h1DF00, \h1DF09>>,
      <<\h1DF0B, \h1DF1E>>, <<\h1E900, \h1E943>>, <<\h1F130, \h1F149>>,
      <<\h1F150, \h1F169>>, <<\h1F170, \h1F189>>>>

Cased ==
    {"A", "B", "C", "D", "E", "F", "G", "H", "I", "J", "K", "L", "M",
     "N", "O", "P", "Q", "R", "S", "T", "U", "V", "W", "X", "Y", "Z", "a",
     "b", "c", "d", "e", "f", "g", "h", "i", "j", "k", "l", "m", "n", "o",
     "p", "q", "r", "s", "t", "u", "v", "w", "x", "y", "z", "ª", "µ", "º",
     "À", "Á", "Â", "Ã", "Ä", "Å", "Æ", "Ç", "È", "É", "Ê", "Ë", "Ì", "Í",
     "Î", "Ï", "Ð", "Ñ", "Ò", "Ó", "Ô", "Õ", "Ö", "Ø", "Ù", "Ú", "Û", "Ü",
     "Ý", "Þ", "ß", "à", "á", "â", "ã", "ä", "å", "æ", "ç", "è", "é", "ê",
     "ë", "ì", "í", "î", "ï", "ð", "ñ", "ò", "ó", "ô", "õ", "ö", "ø", "ù",
     "ú", "û", "ü", "ý", "þ", "ÿ"}
        \cup CharsOf(CasedRanges)

CaseIgnorableRanges ==
    <<<<\h02B0, \h036F>>, <<\h0374, \h0375>>,
      <<\h037A, \h037A>>, <<\h0384, \h0385>>, <<\h0387, \h0387>>,
      <<\h0483, \h0489>>, <<\h0559, \h0559>>, <<\h055F, \h055F>>,
      <<\h0591, \h05BD>>, <<\h05BF, \h05BF>>, <<\h05C1, \h05C2>>,
      <<\h05C4, \h05C5>>, <<\h05C7, \h05C7>>, <<\h05F4, \h05F4>>,
      <<\h0600, \h0605>>, <<\h0610, \h061A>>, <<\h061C, \h061C>>,
      <<\h0640, \h0640>>, <<\h064B, \h065F>>, <<\h0670, \h0670>>,
      <<\h06D6, \h06DD>>, <<\h06DF, \h06E8>>, <<\h06EA, \h06ED>>,
      <<\h070F, \h070F>>, <<\h0711, \h0711>>, <<\h0730, \h074A>>,
      <<\h07A6, \h07B0>>, <<\h07EB, \h07F5>>, <<\h07FA, \h07FA>>,
      <<\h07FD, \h07FD>>, <<\h0816, \h082D>>, <<\h0859, \h085B>>,
      <<\h0888, \h0888>>, <<\h0890, \h0891>>, <<\h0898, \h089F>>,
      <<\h08C9, \h0902>>, <<\h093A, \h093A>>, <<\h093C, \h093C>>,
      <<\h0941, \h0948>>, <<\h094D, \h094D>>, <<\h0951, \h0957>>,
      <<\h0962, \h0963>>, <<\h0971, \h0971>>, <<\h0981, \h0981>>,
      <<\h09BC, \h09BC>>, <<\h09C1, \h09C4>>, <<\h09CD, \h09CD>>,
      <<\h09E2, \h09E3>>, <<\h09FE, \h09FE>>, <<\h0A01, \h0A02>>,
      <<\h0A3C, \h0A3C>>, <<\h0A41, \h0A42>>, <<\h0A47, \h0A48>>,
      <<\h0A4B, \h0A4D>>, <<\h0A51, \h0A51>>, <<\h0A70, \h0A71>>,
      <<\h0A75, \h0A75>>, <<\h0A81, \h0A82>>, <<\h0ABC, \h0ABC>>,
      <<\h0AC1, \h0AC5>>, <<\h0AC7, \h0AC8>>, <<\h0ACD, \h0ACD>>,
      <<\h0AE2, \h0AE3>>, <<\h0AFA, \h0AFF>>, <<\h0B01, \h0B01>>,
      <<\h0B3C, \h0B3C>>, <<\h0B3F, \h0B3F>>, <<\h0B41, \h0B44>>,
      <<\h0B4D, \h0B4D>>, <<\h0B55, \h0B56>>, <<\h0B62, \h0B63>>,
      <<\h0B82, \h0B82>>, <<\h0BC0, \h0BC0>>, <<\h0BCD, \h0BCD>>,
      <<\h0C00, \h0C00>>, <<\h0C04, \h0C04>>, <<\h0C3C, \h0C3C>>,
      <<\h0C3E, \h0C40>>, <<\h0C46, \h0C48>>, <<\h0C4A, \h0C4D>>,
      <<\h0C55, \h0C56>>, <<\h0C62, \h0C63>>, <<\h0C81, \h0C81>>,
      <<\h0CBC, \h0CBC>>, <<\h0CBF, \h0CBF>>, <<\h0CC6, \h0CC6>>,
      <<\h0CCC, \h0CCD>>, <<\h0CE2, \h0CE3>>, <<\h0D00, \h0D01>>,
      <<\h0D3B, \h0D3C>>, <<\h0D41, \h0D44>>, <<\h0D4D, \h0D4D>>,
      <<\h0D62, \h0D63>>, <<\h0D81, \h0D81>>, <<\h0DCA, \h0DCA>>,
      <<\h0DD2, \h0DD4>>, <<\h0DD6, \h0DD6>>, <<\h0E31, \h0E31>>,
      <<\h0E34, \h0E3A>>, <<\h0E46, \h0E4E>>, <<\h0EB1, \h0EB1>>,
      <<\h0EB4, \h0EBC>>, <<\h0EC6, \h0EC6>>, <<\h0EC8, \h0ECD>>,
      <<\h0F18, \h0F19>>, <<\h0F35, \h0F35>>, <<\h0F37, \h0F37>>,
      <<\h0F39, \h0F39>>, <<\h0F71, \h0F7E>>, <<\h0F80, \h0F84>>,
      <<\h0F86, \h0F87>>, <<\h0F8D, \h0F97>>, <<\h0F99, \h0FBC>>,
      <<\h0FC6, \h0FC6>>, <<\h102D, \h1030>>, <<\h1032, \h1037>>,
      <<\h1039, \h103A>>, <<\h103D, \h103E>>, <<\h1058, \h1059>>,
      <<\h105E, \h1060>>, <<\h1071, \h1074>>, <<\h1082, \h1082>>,
      <<\h1085, \h1086>>, <<\h108D, \h108D>>, <<\h109D, \h109D>>,
      <<\h10FC, \h10FC>>, <<\h135D, \h135F>>, <<\h1712, \h1714>>,
      <<\h1732, \h1733>>, <<\h1752, \h1753>>, <<\h1772, \h1773>>,
      <<\h17B4, \h17B5>>, <<\h17B7, \h17BD>>, <<\h17C6, \h17C6>>,
      <<\h17C9, \h17D3>>, <<\h17D7, \h17D7>>, <<\h17DD, \h17DD>>,
      <<\h180B, \h180F>>, <<\h1843, \h1843>>, <<\h1885, \h1886>>,
      <<\h18A9, \h18A9>>, <<\h1920, \h1922>>, <<\h1927, \h1928>>,
      <<\h1932, \h1932>>, <<\h1939, \h193B>>, <<\h1A17, \h1A18>>,
      <<\h1A1B, \h1A1B>>, <<\h1A56, \h1A56>>, <<\h1A58, \h1A5E>>,
      <<\h1A60, \h1A60>>, <<\h1A62, \h1A62>>, <<\h1A65, \h1A6C>>,
      <<\h1A73, \h1A7C>>, <<\h1A7F, \h1A7F>>, <<\h1AA7, \h1AA7>>,
      <<\h1AB0, \h1ACE>>, <<\h1B00, \h1B03>>, <<\h1B34, \h1B34>>,
      <<\h1B36, \h1B3A>>, <<\h1B3C, \h1B3C>>, <<\h1B42, \h1B42>>,
      <<\h1B6B, \h1B73>>, <<\h1B80, \h1B81>>, <<\h1BA2, \h1BA5>>,
      <<\h1BA8, \h1BA9>>, <<\h1BAB, \h1BAD>>, <<\h1BE6, \h1BE6>>,
      <<\h1BE8, \h1BE9>>, <<\h1BED, \h1BED>>, <<\h1BEF, \h1BF1>>,
      <<\h1C2C, \h1C33>>, <<\h1C36, \h1C37>>, <<\h1C78, \h1C7D>>,
      <<\h1CD0, \h1CD2>>, <<\h1CD4, \h1CE0>>, <<\h1CE2, \h1CE8>>,
      <<\h1CED, \h1CED>>, <<\h1CF4, \h1CF4>>, <<\h1CF8, \h1CF9>>,
      <<\h1D2C, \h1D6A>>, <<\h1D78, \h1D78>>, <<\h1D9B, \h1DFF>>,
      <<\h1FBD, \h1FBD>>, <<\h1FBF, \h1FC1>>, <<\h1FCD, \h1FCF>>,
      <<\h1FDD, \h1FDF>>, <<\h1FED, \h1FEF>>, <<\h1FFD, \h1FFE>>,
      <<\h200B, \h200F>>, <<\h2018, \h2019>>, <<\h2024, \h2024>>,
      <<\h2027, \h2027>>, <<\h202A, \h202E>>, <<\h2060, \h2064>>,
      <<\h2066, \h206F>>, <<\h2071, \h2071>>, <<\h207F, \h207F>>,
      <<\h2090, \h209C>>, <<\h20D0, \h20F0>>, <<\h2C7C, \h2C7D>>,
      <<\h2CEF, \h2CF1>>, <<\h2D6F, \h2D6F>>, <<\h2D7F, \h2D7F>>,
      <<\h2DE0, \h2DFF>>, <<\h2E2F, \h2E2F>>, <<\h3005, \h3005>>,
      <<\h302A, \h302D>>, <<\h3031, \h3035>>, <<\h303B, \h303B>>,
      <<\h3099, \h309E>>, <<\h30FC, \h30FE>>, <<\hA015, \hA015>>,
      <<\hA4F8, \hA4FD>>, <<\hA60C, \hA60C>>, <<\hA66F, \hA672>>,
      <<\hA674, \hA67D>>, <<\hA67F, \hA67F>>, <<\hA69C, \hA69F>>,
      <<\hA6F0, \hA6F1>>, <<\hA700, \hA721>>, <<\hA770, \hA770>>,
      <<\hA788, \hA78A>>, <<\hA7F2, \hA7F4>>, <<\hA7F8, \hA7F9>>,
      <<\hA802, \hA802>>, <<\hA806, \hA806>>, <<\hA80B, \hA80B>>,
      <<\hA825, \hA826>>, <<\hA82C, \hA82C>>, <<\hA8C4, \hA8C5>>,
      <<\hA8E0, \hA8F1>>, <<\hA8FF, \hA8FF>>, <<\hA926, \hA92D>>,
      <<\hA947, \hA951>>, <<\hA980, \hA982>>, <<\hA9B3, \hA9B3>>,
      <<\hA9B6, \hA9B9>>, <<\hA9BC, \hA9BD>>, <<\hA9CF, \hA9CF>>,
      <<\hA9E5, \hA9E6>>, <<\hAA29, \hAA2E>>, <<\hAA31, \hAA32>>,
      <<\hAA35, \hAA36>>, <<\hAA43, \hAA43>>, <<\hAA4C, \hAA4C>>,
      <<\hAA70, \hAA70>>, <<\hAA7C, \hAA7C>>, <<\hAAB0, \hAAB0>>,
      <<\hAAB2, \hAAB4>>, <<\hAAB7, \hAAB8>>, <<\hAABE, \hAABF>>,
      <<\hAAC1, \hAAC1>>, <<\hAADD, \hAADD>>, <<\hAAEC, \hAAED>>,
      <<\hAAF3, \hAAF4>>, <<\hAAF6, \hAAF6>>, <<\hAB5B, \hAB5F>>,
      <<\hAB69, \hAB6B>>, <<\hABE5, \hABE5>>, <<\hABE8, \hABE8>>,
      <<\hABED, \hABED>>, <<\hFB1E, \hFB1E>>, <<\hFBB2, \hFBC2>>,
      <<\hFE00, \hFE0F>>, <<\hFE13, \hFE13>>, <<\hFE20, \hFE2F>>,
      <<\hFE52, \hFE52>>, <<\hFE55, \hFE55>>, <<\hFEFF, \hFEFF>>,
      <<\hFF07, \hFF07>>, <<\hFF0E, \hFF0E>>, <<\hFF1A, \hFF1A>>,
      <<\hFF3E, \hFF3E>>, <<\hFF40, \hFF40>>, <<\hFF70, \hFF70>>,
      <<\hFF9E, \hFF9F>>, <<\hFFE3, \hFFE3>>, <<\hFFF9, \hFFFB>>,
      <<\h101FD, \h101FD>>, <<\h102E0, \h102E0>>, <<\h10376, \h1037A>>,
      <<\h10780, \h10785>>, <<\h10787, \h107B0>>, <<\h107B2, \h107BA>>,
      <<\h10A01, \h10A03>>, <<\h10A05, \h10A06>>, <<\h10A0C, \h10A0F>>,
      <<\h10A38, \h10A3A>>, <<\h10A3F, \h10A3F>>, <<\h10AE5, \h10AE6>>,
      <<\h10D24, \h10D27>>, <<\h10EAB, \h10EAC>>, <<\h10F46, \h10F50>>,
      <<\h10F82, \h10F85>>, <<\h11001, \h11001>>, <<\h11038, \h11046>>,
      <<\h11070, \h11070>>, <<\h11073, \h11074>>, <<\h1107F, \h11081>>,
      <<\h110B3, \h110B6>>, <<\h110B9, \h110BA>>, <<\h110BD, \h110BD>>,
      <<\h110C2, \h110C2>>, <<\h110CD, \h110CD>>, <<\h11100, \h11102>>,
      <<\h11127, \h1112B>>, <<\h1112D, \h11134>>, <<\h11173, \h11173>>,
      <<\h11180, \h11181>>, <<\h111B6, \h111BE>>, <<\h111C9, \h111CC>>,
      <<\h111CF, \h111CF>>, <<\h1122F, \h11231>>, <<\h11234, \h11234>>,
      <<\h11236, \h11237>>, <<\h1123E, \h1123E>>, <<\h112DF, \h112DF>>,
      <<\h112E3, \h112EA>>, <<\h11300, \h11301>>, <<\h1133B, \h1133C>>,
      <<\h11340, \h11340>>, <<\h11366, \h1136C>>, <<\h11370, \h11374>>,
      <<\h11438, \h1143F>>, <<\h11442, \h11444>>, <<\h11446, \h11446>>,
      <<\h1145E, \h1145E>>, <<\h114B3, \h114B8>>, <<\h114BA, \h114BA>>,
      <<\h114BF, \h114C0>>, <<\h114C2, \h114C3>>, <<\h115B2, \h115B5>>,
      <<\h115BC, \h115BD>>, <<\h115BF, \h115C0>>, <<\h115DC, \h115DD>>,
      <<\h11633, \h1163A>>, <<\h1163D, \h1163D>>, <<\h1163F, \h11640>>,
      <<\h116AB, \h116AB>>, <<\h116AD, \h116AD>>, <<\h116B0, \h116B5>>,
      <<\h116B7, \h116B7>>, <<\h1171D, \h1171F>>, <<\h11722, \h11725>>,
      <<\h11727, \h1172B>>, <<\h1182F, \h11837>>, <<\h11839, \h1183A>>,
      <<\h1193B, \h1193C>>, <<\h1193E, \h1193E>>, <<\h11943, \h11943>>,
      <<\h119D4, \h119D7>>, <<\h119DA, \h119DB>>, <<\h119E0, \h119E0>>,
      <<\h11A01, \h11A0A>>, <<\h11A33, \h11A38>>, <<\h11A3B, \h11A3E>>,
      <<\h11A47, \h11A47>>, <<\h11A51, \h11A56>>, <<\h11A59, \h11A5B>>,
      <<\h11A8A, \h11A96>>, <<\h11A98, \h11A99>>, <<\h11C30, \h11C36>>,
      <<\h11C38, \h11C3D>>, <<\h11C3F, \h11C3F>>, <<\h11C92, \h11CA7>>,
      <<\h11CAA, \h11CB0>>, <<\h11CB2, \h11CB3>>, <<\h11CB5, \h11CB6>>,
      <<\h11D31, \h11D36>>, <<\h11D3A, \h11D3A>>, <<\h11D3C, \h11D3D>>,
      <<\h11D3F, \h11D45>>, <<\h11D47, \h11D47>>, <<\h11D90, \h11D91>>,
      <<\h11D95, \h11D95>>, <<\h11D97, \h11D97>>, <<\h11EF3, \h11EF4>>,
      <<\h13430, \h13438>>, <<\h16AF0, \h16AF4>>, <<\h16B30, \h16B36>>,
      <<\h16B40, \h16B43>>, <<\h16F4F, \h16F4F>>, <<\h16F8F, \h16F9F>>,
      <<\h16FE0, \h16FE1>>, <<\h16FE3, \h16FE4>>, <<\h1AFF0, \h1AFF3>>,
      <<\h1AFF5, \h1AFFB>>, <<\h1AFFD, \h1AFFE>>, <<\h1BC9D, \h1BC9E>>,
      <<\h1BCA0, \h1BCA3>>, <<\h1CF00, \h1CF2D>>, <<\h1CF30, \h1CF46>>,
      <<\h1D167, \h1D169>>, <<\h1D173, \h1D182>>, <<\h1D185, \h1D18B>>,
      <<\h1D1AA, \h1D1AD>>, <<\h1D242, \h1D244>>, <<\h1DA00, \h1DA36>>,
      <<\h1DA3B, \h1DA6C>>, <<\h1DA75, \h1DA75>>, <<\h1DA84, \h1DA84>>,
      <<\h1DA9B, \h1DA9F>>, <<\h1DAA1, \h1DAAF>>, <<\h1E000, \h1E006>>,
      <<\h1E008, \h1E018>>, <<\h1E01B, \h1E021>>, <<\h1E023, \h1E024>>,
      <<\h1E026, \h1E02A>>, <<\h1E130, \h1E13D>>, <<\h1E2AE, \h1E2AE>>,
      <<\h1E2EC, \h1E2EF>>, <<\h1E8D0, \h1E8D6>>, <<\h1E944, \h1E94B>>,
      <<\h1F3FB, \h1F3FF>>, <<\hE0001, \hE0001>>, <<\hE0020, \hE007F>>,
      <<\hE0100, \hE01EF>>>>

CaseIgnorable ==
    {"'", ".", ":", "^", "¨", "­", "¯", "´", "·", "¸"}
        \cup CharsOf(CaseIgnorableRanges)

\* The capital sigma s[i] ends a word: a cased character stands before it and
\* none after it, case-ignorable characters in between not counting
FinalSigma(s, i) ==
    /\ \E j \in 1..(i - 1) :
          s[j] \in Cased /\ \A k \in (j + 1)..(i - 1) : s[k] \in CaseIgnorable
    /\ ~\E j \in (i + 1)..Len(s) :
          s[j] \in Cased /\ \A k \in (i + 1)..(j - 1) : s[k] \in CaseIgnorable

\* str.lower()
RECURSIVE LowerFrom(_, _)
LowerFrom(s, i) ==
    IF i > Len(s) THEN <<>>
    ELSE (IF s[i] = "U+03A3" /\ FinalSigma(s, i) THEN <<"U+03C2">> ELSE LowerChar(s[i]))
         \o LowerFrom(s, i + 1)

Lower(s) == LowerFrom(s, 1)

\* str.upper()
RECURSIVE Upper(_)
Upper(s) == IF s = <<>> THEN <<>> ELSE UpperChar(Head(s)) \o Upper(Tail(s))

\* str.startswith(p)
StartsWith(s, p) == Len(s) >= Len(p) /\ SubSeq(s, 1, Len(p)) = p

\* str.strip(): leading and trailing whitespace removed
Strip(s) ==
    LET keep == {i \in 1..Len(s) : s[i] \notin WhiteSpace}
    IN  IF keep = {} THEN <<>>
        ELSE LET lo == CHOOSE i \in keep : \A j \in keep : i <= j
                 hi == CHOOSE i \in keep : \A j \in keep : j <= i
             IN  SubSeq(s, lo, hi)

\* str.isalpha(): at least one character and all of them letters
IsAlpha(s) == Len(s) > 0 /\ \A i \in 1..Len(s) : s[i] \in Letters

\* Index of the first occurrence of character c in s, 0 when there is none
FindChar(s, c) ==
    IF \E i \in 1..Len(s) : s[i] = c
    THEN CHOOSE i \in 1..Len(s) : s[i] = c /\ \A j \in 1..(i - 1) : s[j] # c
    ELSE 0

\* str.split(c, 1): at most one split, at the first occurrence of c
\* (variant: the split is made at the first whitespace character)
Split1AtWhitespace(s, c) ==
    IF \E i \in 1..Len(s) : s[i] \in WhiteSpace
    THEN LET i == CHOOSE k \in 1..Len(s) :
                      s[k] \in WhiteSpace /\ \A j \in 1..(k - 1) : s[j] \notin WhiteSpace
         IN  <<SubSeq(s, 1, i - 1), SubSeq(s, i + 1, Len(s))>>
    ELSE <<s>>

Split1(s, c) ==
    LET i == FindChar(s, c)
    IN  IF i = 0 THEN <<s>>
        ELSE <<SubSeq(s, 1, i - 1), SubSeq(s, i + 1, Len(s))>>

\* str.split(c): split at every occurrence of c
RECURSIVE SplitAll(_, _)
SplitAll(s, c) ==
    LET i == FindChar(s, c)
    IN  IF i = 0 THEN <<s>>
        ELSE <<SubSeq(s, 1, i - 1)>> \o SplitAll(SubSeq(s, i + 1, Len(s)), c)

\* The value of a decimal digit
DigitVal(c) == (CHOOSE i \in 1..10 : \E r \in DOMAIN DigitRows : DigitRows[r][i] = c) - 1

RECURSIVE DigitsVal(_)
DigitsVal(d) ==
    IF d = <<>> THEN 0
    ELSE 10 * DigitsVal(SubSeq(d, 1, Len(d) - 1)) + DigitVal(d[Len(d)])

\* sys.get_int_max_str_digits(): the most digits int() converts
MaxStrDigits == 4300

\* int(s.strip()): surrounding whitespace ignored, an optional sign, then at
\* most MaxStrDigits decimal digits, where single underscores may stand
\* between two digits; anything else raises ValueError.
ParseInt(s) ==
    LET t    == Strip(s)
        sgn  == Len(t) > 0 /\ t[1] \in {"-", "+"}
        body == IF sgn THEN SubSeq(t, 2, Len(t)) ELSE t
        n    == Len(body)
        digs == SelectSeq(body, LAMBDA c : c \in Digits)
    IN  IF /\ n > 0
           /\ Len(digs) <= MaxStrDigits
           /\ body[1] \in Digits
           /\ body[n] \in Digits
           /\ \A i \in 1..n : body[i] \in Digits \cup {"_"}
           /\ \A i \in 1..(n - 1) : ~(body[i] = "_" /\ body[i + 1] = "_")
        THEN [ok |-> TRUE,
              val |-> IF sgn /\ t[1] = "-" THEN 0 - DigitsVal(digs) ELSE DigitsVal(digs)]
        ELSE [ok |-> FALSE, val |-> 0]

(***************************************************************************)
(* Start-up: module level code, lines 16-39 and 143.                       *)
(***************************************************************************)
\* A value of os.getenv: None or a string
EnvNone == [kind |-> "none", s |-> <<>>]
EnvStr(s) == [kind |-> "str", s |-> s]

EnvAlphabet == {"1", "2", ",", " ", "a", "-"}

TokenValues == {EnvNone, EnvStr(<<"t", "o", "k">>)}

\* Values whose tokens int() accepts or rejects for a reason the alphabet
\* does not reach: underscores, other whitespace, digits of another script
SpecialAllowlists ==
    {<<"1", "_", "2">>, <<"_", "1">>, <<"1", "_">>, <<"1", "_", "_", "2">>,
     <<"+", "_", "1">>, <<"7", "\r">>, <<" ", "-", "1", "", ",", "2">>,
     <<"1", "\f", "2">>, <<"U+0663">>, <<"1", "U+0662", ",", "U+2003", "U+FF11">>}

AllowlistValues ==
    {EnvNone} \cup {EnvStr(s) : s \in BoundedSeq(EnvAlphabet, MaxEnvLen) \cup SpecialAllowlists}

\* The environment the bot of the event specifications is started with
GoodToken == EnvStr(<<"t", "o", "k">>)
GoodAllowlist == EnvStr(<<" ", "1", ",", "2">>)

BootStart(token, wl) ==
    [pc |-> "load", token |-> token, wl |-> wl, allowlist |-> {},
     reported |-> "none", client |-> FALSE]

\* Lines 19-30: WHITELISTED_SERVER_IDS is read and parsed
\* (variant: tokens that are no integers are skipped instead of rejected)
ParseAllowlistSkippingBadTokens(b) ==
    IF b.wl.kind = "none" \/ b.wl.s = <<>>
    THEN [b EXCEPT !.pc = "exited", !.reported = "allowlist_missing"]
    ELSE LET toks == SplitAll(b.wl.s, ",")
         IN  [b EXCEPT !.pc = "check_token",
                       !.allowlist = {ParseInt(toks[i]).val :
                                         i \in {j \in 1..Len(toks) : ParseInt(toks[j]).ok}}]

ParseAllowlistResult(b) ==
    IF b.wl.kind = "none" \/ b.wl.s = <<>>
    THEN [b EXCEPT !.pc = "exited", !.reported = "allowlist_missing"]
    ELSE LET toks == SplitAll(b.wl.s, ",")
         IN  IF \A i \in 1..Len(toks) : ParseInt(toks[i]).ok
             THEN [b EXCEPT !.pc = "check_token",
                            !.allowlist = {ParseInt(toks[i]).val : i \in 1..Len(toks)}]
             ELSE [b EXCEPT !.pc = "exited", !.reported = "allowlist_malformed"]

\* Lines 32-35: DISCORD_TOKEN must not be None
CheckTokenResult(b) ==
    IF b.token.kind = "none"
    THEN [b EXCEPT !.pc = "exited", !.reported = "token_missing"]
    ELSE [b EXCEPT !.pc = "construct"]

\* Lines 37-39: the client is constructed
ConstructClientResult(b) == [b EXCEPT !.pc = "constructed", !.client = TRUE]

\* Line 143: client.run(TOKEN)
RunClientResult(b) == [b EXCEPT !.pc = "running"]

ParseAllowlist ==
    /\ boot.pc = "load"
    /\ boot' = ParseAllowlistResult(boot)
    /\ UNCHANGED <<handlers, blocked, call>>

CheckToken ==
    /\ boot.pc = "check_token"
    /\ boot' = CheckTokenResult(boot)
    /\ UNCHANGED <<handlers, blocked, call>>

ConstructClient ==
    /\ boot.pc = "construct"
    /\ boot' = ConstructClientResult(boot)
    /\ UNCHANGED <<handlers, blocked, call>>

RunClient ==
    /\ boot.pc = "constructed"
    /\ boot' = RunClientResult(boot)
    /\ UNCHANGED <<handlers, blocked, call>>

(***************************************************************************)
(* The translation relay: get_translation, lines 47-75.                    *)
(*                                                                         *)
(* The coroutine contains no await: each provider's translate() is a       *)
(* blocking call made on the event loop's thread.  A frame is one          *)
(* activation of get_translation; calls lists the provider invocations it  *)
(* made and outs the outcome each of them had.                             *)
(***************************************************************************)
ResNone == [kind |-> "none", s |-> ""]
ResStr(s) == [kind |-> "str", s |-> s]
ResPending == [kind |-> "pending", s |-> ""]

\* What one provider invocation can do: raise, return None, return a string
Raises == [kind |-> "raise", s |-> ""]

Translations == {"bonjour", "salut"}

ProviderOutcomes == {Raises, ResNone, ResStr("")} \cup {ResStr(t) : t \in Translations}

\* Python truthiness of a provider's return value (lines 60 and 70)
Truthy(out) == out.kind = "str" /\ out.s # ""

EmptyNotice == "The message to translate is empty."

ProviderCall(provider, text, target) ==
    [provider |-> provider, source |-> "auto", target |-> target, text |-> text]

NoFrame ==
    [pc |-> "none", text |-> "", target |-> <<>>, calls |-> <<>>, outs |-> <<>>,
     result |-> ResPending]

FrameEntry(text, target) == [NoFrame EXCEPT !.pc = "entry", !.text = text, !.target = target]

\* Lines 52-59: the empty-text guard, then GoogleTranslator is invoked
\* (variant: the empty-text guard of line 52 is missing)
GetTranslationEnterUnguarded(text, target) ==
    [FrameEntry(text, target) EXCEPT
        !.pc = "primary",
        !.calls = <<ProviderCall("GoogleTranslator", text, target)>>]

GetTranslationEnter(text, target) ==
    IF text = ""
    THEN [FrameEntry(text, target) EXCEPT !.pc = "returned", !.result = ResStr(EmptyNotice)]
    ELSE [FrameEntry(text, target) EXCEPT
             !.pc = "primary",
             !.calls = <<ProviderCall("GoogleTranslator", text, target)>>]

\* Lines 59-69: GoogleTranslator's outcome; on failure MyMemoryTranslator is invoked
\* (variant: line 60 tests for a string instead of a non-empty one)
PrimaryReturnedAnyString(f, out) ==
    IF out.kind = "str"
    THEN [f EXCEPT !.pc = "returned", !.outs = Append(@, out), !.result = out]
    ELSE [f EXCEPT !.pc = "secondary", !.outs = Append(@, out),
                   !.calls = Append(@, ProviderCall("MyMemoryTranslator", f.text, f.target))]

\* (variant: the return of line 61 is missing, the fallback always runs)
PrimaryReturnedAlwaysFallingBack(f, out) ==
    [f EXCEPT !.pc = "secondary", !.outs = Append(@, out),
              !.result = IF Truthy(out) THEN out ELSE @,
              !.calls = Append(@, ProviderCall("MyMemoryTranslator", f.text, f.target))]

PrimaryReturned(f, out) ==
    IF Truthy(out)
    THEN [f EXCEPT !.pc = "returned", !.outs = Append(@, out), !.result = out]
    ELSE [f EXCEPT !.pc = "secondary", !.outs = Append(@, out),
                   !.calls = Append(@, ProviderCall("MyMemoryTranslator", f.text, f.target))]

\* Lines 69-75: MyMemoryTranslator's outcome
SecondaryReturned(f, out) ==
    IF Truthy(out)
    THEN [f EXCEPT !.pc = "returned", !.outs = Append(@, out), !.result = out]
    ELSE [f EXCEPT !.pc = "returned", !.outs = Append(@, out), !.result = ResNone]

(***************************************************************************)
(* get_translation called on its own: the frame in the variable call.      *)
(***************************************************************************)
RelayTexts == {"", "hello", "hi"}

RelayTargets == {<<"f", "r">>, <<"z", "z">>, <<"d", "e">>}

RelayEnter ==
    /\ call.pc = "entry"
    /\ call' = GetTranslationEnter(call.text, call.target)
    /\ UNCHANGED <<boot, handlers, blocked>>

RelayPrimaryReturn ==
    /\ call.pc = "primary"
    /\ \E out \in ProviderOutcomes : call' = PrimaryReturned(call, out)
    /\ UNCHANGED <<boot, handlers, blocked>>

RelaySecondaryReturn ==
    /\ call.pc = "secondary"
    /\ \E out \in ProviderOutcomes : call' = SecondaryReturned(call, out)
    /\ UNCHANGED <<boot, handlers, blocked>>

(***************************************************************************)
(* The event handler: on_message, lines 84-139.                            *)
(***************************************************************************)
CommandToken == <<"/", "t", "r", "a", "n", "s", "l", "a", "t", "e">>

\* Inbound events
Authors == {"bot", "user"}

NoGuild == [kind |-> "none", id |-> 0]
Guild(id) == [kind |-> "guild", id |-> id]
Guilds == {NoGuild, Guild(1), Guild(3)}

\* message.reference: absent, present without a message id, present with one
References == {"none", "no_id", "id"}

Prefixes == {CommandToken,
             <<"/", "T", "r", "a", "n", "s", "L", "A", "T", "E">>,
             <<"h", "i">>}

TailAlphabet == {" ", "\t", "F", "r", "1"}

\* Arguments with letters and whitespace outside ASCII
SpecialTails ==
    {<<" ", "ß", "É">>, <<" ", "µ", "ÿ">>, <<" ", "é", "×">>, <<" ", "F", "r", "\r">>,
     <<" ", "", "f", "R", "">>, <<" ", "f", "r">>, <<" ", "f", " ", "r">>,
     <<" ", "U+0100", "U+4E2D">>, <<" ", "U+0130", "a">>, <<" ", "a", "U+03A3">>,
     <<" ", "U+03A3", "a">>, <<" ", "U+017F", "U+0149">>, <<"U+2003", "f", "r">>}

Contents ==
    {p \o t : p \in Prefixes, t \in BoundedSeq(TailAlphabet, MaxTailLen)}
        \cup {CommandToken \o t : t \in SpecialTails}

Events == [author : Authors, guild : Guilds, reference : References, content : Contents]

NoEvent == [author |-> "none", guild |-> NoGuild, reference |-> "none", content |-> <<>>]

\* Outcomes of channel.fetch_message and of message.reply
FetchedNone == [kind |-> "none", content |-> "", mention |-> ""]
Fetched(c) == [kind |-> "msg", content |-> c, mention |-> "<@7>"]
FetchRaises(e) == [kind |-> e, content |-> "", mention |-> ""]
Unfetched == [kind |-> "unset", content |-> "", mention |-> ""]

DiscordErrors == {"NotFound", "Forbidden", "HTTPException"}

FetchOutcomes ==
    {FetchedNone, Fetched(""), Fetched("hello")} \cup {FetchRaises(e) : e \in DiscordErrors}

ReplyOutcomes == {"ok"} \cup DiscordErrors

\* The texts on_message replies with, by the line that builds them
Reply(kind, code, text, mention) ==
    [kind |-> kind, code |-> code, text |-> text, mention |-> mention]

NoReply == Reply("none", <<>>, "", "")
UsageReply == Reply("usage", <<>>, "", "")
InvalidCodeReply(code) == Reply("invalid_code", code, "", "")
NotRetrievedReply == Reply("not_retrieved", <<>>, "", "")
NoTextReply == Reply("no_text", <<>>, "", "")
TranslationReply(mention, code, text) == Reply("translation", Upper(code), text, mention)
BothFailedReply(code) == Reply("both_failed", code, "", "")
NotFoundReply == Reply("not_found", <<>>, "", "")
ForbiddenReply == Reply("forbidden", <<>>, "", "")
InternalErrorReply(e) == Reply("internal_error", <<>>, e, "")

IdleHandler ==
    [pc |-> "idle", msg |-> NoEvent, target_lang |-> <<>>, referenced |-> Unfetched,
     fetch_result |-> Unfetched, relay |-> NoFrame, sending |-> NoReply, ctx |-> "none", attempts |-> <<>>,
     sent |-> <<>>, fetches |-> 0, caught |-> <<>>, ending |-> "none", error |-> "none"]

\* The handler returns (a return statement or the end of the function)
Returned(hr) == [hr EXCEPT !.pc = "done", !.ending = "returned", !.ctx = "none",
                           !.sending = NoReply]

\* An exception leaves on_message
Propagated(hr, e) == [hr EXCEPT !.pc = "done", !.ending = "raised", !.error = e,
                                !.ctx = "none", !.sending = NoReply]

\* await message.reply(r), called from ctx: "top" (lines 101, 107, outside the
\* try), "try" (lines 114, 120, 127, 131) or "except" (lines 134, 136, 139)
StartReply(hr, r, ctx) ==
    [hr EXCEPT !.pc = "await_reply", !.sending = r, !.ctx = ctx,
               !.attempts = Append(@, r)]

\* Lines 133-139: an exception raised inside the try block
\* (variant: only the catch-all clause of line 137)
RaisedInTryGenericOnly(hr, e) ==
    StartReply([hr EXCEPT !.caught = Append(@, e)], InternalErrorReply(e), "except")

\* caught lists the exceptions that reached the except clauses
RaisedInTry(hr, e) ==
    LET h1 == [hr EXCEPT !.caught = Append(@, e)]
    IN  IF e = "NotFound" THEN StartReply(h1, NotFoundReply, "except")
        ELSE IF e = "Forbidden" THEN StartReply(h1, ForbiddenReply, "except")
        ELSE StartReply(h1, InternalErrorReply(e), "except")

\* Lines 126-131: get_translation has returned
AfterRelay(hr) ==
    IF Truthy(hr.relay.result)
    THEN StartReply(hr, TranslationReply(hr.referenced.mention, hr.target_lang,
                                         hr.relay.result.s), "try")
    ELSE StartReply(hr, BothFailedReply(hr.target_lang), "try")

\* Line 124: get_translation is awaited; it runs on the loop's thread until it
\* returns, so the handler is inside a provider call or already at line 126
EnterRelay(hr) ==
    LET f == GetTranslationEnter(hr.referenced.content, hr.target_lang)
    IN  IF f.pc = "returned" THEN AfterRelay([hr EXCEPT !.relay = f])
        ELSE [hr EXCEPT !.pc = "in_primary", !.relay = f]

\* Line 88: message.author == client.user
\* (variant: the filter is missing)
IsSelfNever(msg) == FALSE

IsSelf(msg) == msg.author = "bot"

\* Line 91: message.guild and message.guild.id not in WHITELISTED_SERVER_IDS
\* (variant: the filter is missing)
GuildRejectedNever(msg, allowlist) == FALSE

GuildRejected(msg, allowlist) == msg.guild.kind = "guild" /\ msg.guild.id \notin allowlist

\* Line 96: message.reference and message.reference.message_id
\* (variant: the test is missing)
IsReplyAlways(msg) == TRUE

IsReply(msg) == msg.reference = "id"

\* Line 98: message.content.lower().startswith(command_prefix)
IsCommand(lowered) == StartsWith(lowered, CommandToken)

\* Line 106: len(target_lang) != 2 or not target_lang.isalpha()
\* (variants: one of the two tests is missing)
InvalidCodeLengthOnly(target) == Len(target) # 2

InvalidCodeAlphaOnly(target) == ~IsAlpha(target)

InvalidCode(target) == Len(target) # 2 \/ ~IsAlpha(target)

\* Lines 86-111: from the event's delivery to the first await
OnMessageEnter(msg, allowlist) ==
    LET hr == [IdleHandler EXCEPT !.msg = msg]
        lowered == Lower(msg.content)
        parts == Split1(lowered, " ")
        target == Strip(parts[2])
    IN  IF IsSelf(msg) THEN Returned(hr)
        ELSE IF GuildRejected(msg, allowlist) THEN Returned(hr)
        ELSE IF ~IsReply(msg) THEN Returned(hr)
        ELSE IF ~IsCommand(lowered) THEN Returned(hr)
        ELSE IF Len(parts) < 2 THEN StartReply(hr, UsageReply, "top")
        ELSE IF InvalidCode(target)
             THEN StartReply([hr EXCEPT !.target_lang = target],
                             InvalidCodeReply(target), "top")
        ELSE [hr EXCEPT !.pc = "await_fetch", !.target_lang = target, !.fetches = @ + 1]

\* Lines 111-124: fetch_message has returned or raised
AfterFetch(hr, out) ==
    IF out.kind \in DiscordErrors
    THEN RaisedInTry([hr EXCEPT !.fetch_result = out], out.kind)
    ELSE LET h1 == [hr EXCEPT !.referenced = out, !.fetch_result = out]
         IN  IF out.kind = "none" THEN StartReply(h1, NotRetrievedReply, "try")
             ELSE IF out.content = "" THEN StartReply(h1, NoTextReply, "try")
             \* line 123 reads message.guild.name: None has no attribute name
             ELSE IF hr.msg.guild.kind = "none" THEN RaisedInTry(h1, "AttributeError")
             ELSE EnterRelay(h1)

\* A provider call of the relay awaited at line 124 has ended
AfterPrimary(hr, out) ==
    LET f == PrimaryReturned(hr.relay, out)
    IN  IF f.pc = "returned" THEN AfterRelay([hr EXCEPT !.relay = f])
        ELSE [hr EXCEPT !.pc = "in_secondary", !.relay = f]

AfterSecondary(hr, out) == AfterRelay([hr EXCEPT !.relay = SecondaryReturned(hr.relay, out)])

\* message.reply has returned or raised
\* (variant: the return of line 121 is missing)
AfterReplyMissingReturn(hr, out) ==
    IF out = "ok"
    THEN LET h1 == [hr EXCEPT !.sent = Append(@, hr.sending)]
         IN  IF hr.sending = NoTextReply THEN EnterRelay(h1) ELSE Returned(h1)
    ELSE IF hr.ctx = "try" THEN RaisedInTry(hr, out)
    ELSE Propagated(hr, out)

AfterReply(hr, out) ==
    IF out = "ok" THEN Returned([hr EXCEPT !.sent = Append(@, hr.sending)])
    ELSE IF hr.ctx = "try" THEN RaisedInTry(hr, out)
    ELSE Propagated(hr, out)

(***************************************************************************)
(* The event loop.  blocked is the handler whose synchronous provider call *)
(* occupies the loop's only thread, 0 when the thread is free.             *)
(***************************************************************************)
Handlers == 1..MaxInFlight

Blocking(hr) == hr.pc \in {"in_primary", "in_secondary"}

\* (variant: the loop's thread is never handed back after a provider call)
StepNeverReleasing(h, hr) ==
    /\ handlers' = [handlers EXCEPT ![h] = hr]
    /\ blocked' = IF Blocking(hr) THEN h ELSE blocked
    /\ UNCHANGED <<boot, call>>

Step(h, hr) ==
    /\ handlers' = [handlers EXCEPT ![h] = hr]
    /\ blocked' = IF Blocking(hr) THEN h ELSE 0
    /\ UNCHANGED <<boot, call>>

Receive(h, E) ==
    /\ boot.pc = "running"
    /\ blocked = 0
    /\ handlers[h].pc = "idle"
    /\ \E msg \in E : Step(h, OnMessageEnter(msg, boot.allowlist))

FetchReturn(h, O) ==
    /\ blocked = 0
    /\ handlers[h].pc = "await_fetch"
    /\ \E out \in O : Step(h, AfterFetch(handlers[h], out))

PrimaryReturn(h, O) ==
    /\ blocked = h
    /\ handlers[h].pc = "in_primary"
    /\ \E out \in O : Step(h, AfterPrimary(handlers[h], out))

SecondaryReturn(h, O) ==
    /\ blocked = h
    /\ handlers[h].pc = "in_secondary"
    /\ \E out \in O : Step(h, AfterSecondary(handlers[h], out))

ReplyReturn(h, O) ==
    /\ blocked = 0
    /\ handlers[h].pc = "await_reply"
    /\ \E out \in O : Step(h, AfterReply(handlers[h], out))

(***************************************************************************)
(* Specifications.                                                         *)
(***************************************************************************)
\* One event: the bot starts with a good configuration and handles an event
Init ==
    /\ boot = BootStart(GoodToken, GoodAllowlist)
    /\ handlers = [h \in Handlers |-> IdleHandler]
    /\ blocked = 0
    /\ call = NoFrame

Next ==
    \/ ParseAllowlist
    \/ CheckToken
    \/ ConstructClient
    \/ RunClient
    \/ Receive(1, Events)
    \/ FetchReturn(1, FetchOutcomes)
    \/ PrimaryReturn(1, ProviderOutcomes)
    \/ SecondaryReturn(1, ProviderOutcomes)
    \/ ReplyReturn(1, ReplyOutcomes)

Spec == Init /\ [][Next]_vars

\* Several events in flight on the one event loop, each drawn from a sample of
\* the events with one event per path through on_message
LoopContents == {CommandToken \o <<" ", "F", "r">>, CommandToken \o <<" ", "F">>,
                 CommandToken, <<"h", "i">>}

LoopEvents ==
    [author : {"user"}, guild : {Guild(1)}, reference : {"id"}, content : LoopContents]
        \cup {[author |-> "user", guild |-> g, reference |-> "id",
                content |-> CommandToken \o <<" ", "F", "r">>] : g \in {NoGuild, Guild(3)}}

LoopFetchOutcomes == {Fetched("hello"), Fetched(""), FetchRaises("NotFound")}

LoopProviderOutcomes == {Raises, ResStr("bonjour")}

LoopReplyOutcomes == {"ok", "Forbidden"}

NextLoop ==
    \/ ParseAllowlist
    \/ CheckToken
    \/ ConstructClient
    \/ RunClient
    \/ \E h \in Handlers :
          \/ Receive(h, LoopEvents)
          \/ FetchReturn(h, LoopFetchOutcomes)
          \/ PrimaryReturn(h, LoopProviderOutcomes)
          \/ SecondaryReturn(h, LoopProviderOutcomes)
          \/ ReplyReturn(h, LoopReplyOutcomes)

SpecLoop == Init /\ [][NextLoop]_vars

\* Every external call eventually returns or raises: a pending fetch, provider
\* call or reply send that can complete does complete.
ExternalCallsReturn ==
    \A h \in Handlers :
        /\ WF_vars(FetchReturn(h, LoopFetchOutcomes))
        /\ WF_vars(PrimaryReturn(h, LoopProviderOutcomes))
        /\ WF_vars(SecondaryReturn(h, LoopProviderOutcomes))
        /\ WF_vars(ReplyReturn(h, LoopReplyOutcomes))

SpecLoopFair == SpecLoop /\ ExternalCallsReturn

\* Start-up under every environment
InitConfig ==
    /\ boot \in {BootStart(t, w) : t \in TokenValues, w \in AllowlistValues}
    /\ handlers = [h \in Handlers |-> IdleHandler]
    /\ blocked = 0
    /\ call = NoFrame

NextConfig ==
    \/ ParseAllowlist
    \/ CheckToken
    \/ ConstructClient
    \/ RunClient

SpecConfig == InitConfig /\ [][NextConfig]_vars

\* get_translation called with every text and target
InitRelay ==
    /\ boot = BootStart(GoodToken, GoodAllowlist)
    /\ handlers = [h \in Handlers |-> IdleHandler]
    /\ blocked = 0
    /\ call \in {FrameEntry(t, c) : t \in RelayTexts, c \in RelayTargets}

NextRelay ==
    \/ RelayEnter
    \/ RelayPrimaryReturn
    \/ RelaySecondaryReturn

SpecRelay == InitRelay /\ [][NextRelay]_vars

(***************************************************************************)
(* Properties of on_message.                                               *)
(***************************************************************************)
Delivered(hr) == hr.pc # "idle"

\* The handler has sent nothing, fetched nothing and invoked no provider
Silent(hr) ==
    /\ hr.attempts = <<>>
    /\ hr.sent = <<>>
    /\ hr.fetches = 0
    /\ hr.relay = NoFrame

\* The text begins with /translate in any letter case
BeginsWithCommand(content) ==
    /\ Len(content) >= Len(CommandToken)
    /\ \A i \in 1..Len(CommandToken) :
          <<content[i]>> \in {<<CommandToken[i]>>, UpperChar(CommandToken[i])}

\* The text after the first space of the content, without surrounding
\* whitespace, as the sender typed it
HasArgument(content) == \E i \in 1..Len(content) : content[i] = " "

SuppliedCode(content) ==
    LET i == CHOOSE k \in 1..Len(content) :
                 content[k] = " " /\ \A j \in 1..(k - 1) : content[j] # " "
        arg == [k \in 1..(Len(content) - i) |-> content[i + k]]
        ink == {k \in 1..Len(arg) : arg[k] \notin WhiteSpace}
    IN  IF ink = {} THEN <<>>
        ELSE LET lo == CHOOSE m \in ink : \A n \in ink : m <= n
                 hi == CHOOSE m \in ink : \A n \in ink : n <= m
             IN  [k \in 1..(hi - lo + 1) |-> arg[lo + k - 1]]

TwoLetters(code) == Len(code) = 2 /\ code[1] \in Letters /\ code[2] \in Letters

WellFormedCommand == CommandToken \o <<" ", "F", "r">>

\* C1: an event from a guild that is not in the allowlist gets no reply, no
\* fetch of the referenced message and no provider invocation, whatever its
\* text and reference; the handler just returns.
C1_UnlistedGuildIgnored ==
    \A h \in Handlers :
        LET hr == handlers[h]
        IN  (Delivered(hr) /\ hr.msg.guild.kind = "guild"
                /\ hr.msg.guild.id \notin boot.allowlist)
            => (Silent(hr) /\ hr.pc = "done" /\ hr.ending = "returned")

C1_Witness ==
    \E h \in Handlers :
        /\ handlers[h].pc = "done"
        /\ handlers[h].msg = [author |-> "user", guild |-> Guild(3), reference |-> "id",
                              content |-> WellFormedCommand]
        /\ Silent(handlers[h])

\* C2: a provider is invoked for an event only if the event comes from an
\* allowed guild or is a direct message, is a reply, has a text that begins
\* with /translate in any letter case, and supplies a language code of exactly
\* two letters.
C2_ProviderOnlyForValidCommand ==
    \A h \in Handlers :
        LET hr == handlers[h]
        IN  hr.relay.calls # <<>>
            => /\ (hr.msg.guild.kind = "none" \/ hr.msg.guild.id \in boot.allowlist)
               /\ hr.msg.reference = "id"
               /\ BeginsWithCommand(hr.msg.content)
               /\ HasArgument(hr.msg.content)
               /\ TwoLetters(SuppliedCode(hr.msg.content))

C2_Witness ==
    \E h \in Handlers :
        /\ handlers[h].relay.calls # <<>>
        /\ handlers[h].msg.content = WellFormedCommand
        /\ handlers[h].msg.guild = Guild(1)

\* C7: an event authored by the bot itself gets no reply, no fetch and no
\* provider invocation, whatever its guild, text and reference.
C7_OwnMessagesIgnored ==
    \A h \in Handlers :
        LET hr == handlers[h]
        IN  (Delivered(hr) /\ hr.msg.author = "bot")
            => (Silent(hr) /\ hr.pc = "done" /\ hr.ending = "returned")

C7_Witness ==
    \E h \in Handlers :
        /\ handlers[h].pc = "done"
        /\ handlers[h].msg = [author |-> "bot", guild |-> Guild(1), reference |-> "id",
                              content |-> WellFormedCommand]
        /\ Silent(handlers[h])

\* C3 (as claimed): a direct-message reply "/translate xx" from a user whose
\* referenced message was fetched with non-empty text gets the relay invoked,
\* GoogleTranslator first, and is answered with the translation or the
\* both-services-failed reply.
IsPlainCommand(content) ==
    /\ Len(content) = Len(CommandToken) + 3
    /\ SubSeq(content, 1, Len(CommandToken)) = CommandToken
    /\ content[Len(CommandToken) + 1] = " "
    /\ content[Len(CommandToken) + 2] \in Letters
    /\ content[Len(CommandToken) + 3] \in Letters

C3_DirectMessageTranslated ==
    \A h \in Handlers :
        LET hr == handlers[h]
        IN  (/\ hr.msg.guild.kind = "none"
             /\ hr.msg.author = "user"
             /\ hr.msg.reference = "id"
             /\ IsPlainCommand(hr.msg.content)
             /\ hr.referenced.kind = "msg"
             /\ hr.referenced.content # "")
            => /\ hr.relay.calls # <<>>
               /\ hr.relay.calls[1].provider = "GoogleTranslator"
               /\ hr.attempts # <<>> => hr.attempts[1].kind \in {"translation", "both_failed"}

\* C4 (as claimed): no error leaves on_message; a finished handler has
\* returned, and has either sent nothing at all or delivered a reply.
C4_NothingPropagates ==
    \A h \in Handlers :
        LET hr == handlers[h]
        IN  hr.pc = "done"
            => /\ hr.ending = "returned"
               /\ hr.error = "none"
               /\ (hr.attempts = <<>> \/ hr.sent # <<>>)

\* C8: an authorized reply whose text begins with /translate and has a second
\* part that, trimmed, is not exactly two letters is answered with the
\* invalid-language-code reply naming that code and with nothing else; the
\* referenced message is not fetched and no provider is invoked.
C8_InvalidCodeRejected ==
    \A h \in Handlers :
        LET hr == handlers[h]
        IN  (/\ Delivered(hr)
             /\ hr.msg.author = "user"
             /\ (hr.msg.guild.kind = "none" \/ hr.msg.guild.id \in boot.allowlist)
             /\ hr.msg.reference = "id"
             /\ BeginsWithCommand(hr.msg.content)
             /\ HasArgument(hr.msg.content)
             /\ ~TwoLetters(SuppliedCode(hr.msg.content)))
            => /\ hr.attempts = <<InvalidCodeReply(Lower(SuppliedCode(hr.msg.content)))>>
               /\ hr.sent \in {<<>>, hr.attempts}
               /\ hr.fetches = 0
               /\ hr.fetch_result = Unfetched
               /\ hr.relay = NoFrame
               /\ hr.pc \in {"await_reply", "done"}
               /\ (hr.pc = "done" /\ hr.ending = "returned") => hr.sent = hr.attempts

C8_Witness ==
    \E h \in Handlers :
        /\ handlers[h].pc = "done"
        /\ handlers[h].msg.content = CommandToken \o <<" ", "F", "1">>
        /\ handlers[h].sent = <<InvalidCodeReply(<<"f", "1">>)>>
        /\ handlers[h].fetches = 0

\* C9: for a well-formed reply-command the handler answers a fetch that raised
\* not-found with the could-not-be-found reply, one that raised forbidden with
\* the no-read-permission reply and one that returned a message without text
\* with the no-text-content reply; in none of these cases is a provider invoked.
AnswersFetchWith(hr, r) ==
    /\ hr.attempts # <<>>
    /\ hr.attempts[1] = r
    /\ Len(hr.attempts) = 1 => hr.sent \in {<<>>, <<r>>}
    /\ hr.relay = NoFrame

C9_FetchOutcomeDecidesReply ==
    \A h \in Handlers :
        LET hr == handlers[h]
        IN  /\ hr.fetch_result.kind = "NotFound"
                => (AnswersFetchWith(hr, NotFoundReply) /\ Len(hr.attempts) = 1)
            /\ hr.fetch_result.kind = "Forbidden"
                => (AnswersFetchWith(hr, ForbiddenReply) /\ Len(hr.attempts) = 1)
            /\ (hr.fetch_result.kind = "msg" /\ hr.fetch_result.content = "")
                => AnswersFetchWith(hr, NoTextReply)

C9_Witness ==
    \E h \in Handlers :
        /\ handlers[h].pc = "done"
        /\ handlers[h].fetch_result.kind = "NotFound"
        /\ handlers[h].sent = <<NotFoundReply>>
        /\ handlers[h].relay = NoFrame

(***************************************************************************)
(* Properties of get_translation.                                          *)
(***************************************************************************)
NonEmptyString(out) == out.kind = "str" /\ Len(out.s) > 0

\* C5: for a non-empty text get_translation returns the primary provider's
\* result if that is a non-empty string, otherwise the secondary provider's
\* result if that is a non-empty string, otherwise None.
C5_FallbackResult ==
    (call.pc = "returned" /\ call.text # "")
        => /\ Len(call.outs) >= 1
           /\ IF NonEmptyString(call.outs[1])
              THEN call.result = ResStr(call.outs[1].s) /\ Len(call.outs) = 1
              ELSE /\ Len(call.outs) = 2
                   /\ IF NonEmptyString(call.outs[2])
                      THEN call.result = ResStr(call.outs[2].s)
                      ELSE call.result = ResNone

C5_Witness ==
    /\ call.pc = "returned"
    /\ call.text = "hello"
    /\ call.outs = <<Raises, ResStr("bonjour")>>
    /\ call.result = ResStr("bonjour")

\* C6: with an empty text get_translation returns the fixed notice string, not
\* None, and invokes neither provider, whatever the target code.
C6_EmptyTextNotice ==
    (call.pc \notin {"none", "entry"} /\ call.text = "")
        => /\ call.pc = "returned"
           /\ call.result = [kind |-> "str", s |-> "The message to translate is empty."]
           /\ call.calls = <<>>
           /\ call.outs = <<>>

C6_Witness ==
    /\ call.pc = "returned"
    /\ call.text = ""
    /\ call.target = <<"f", "r">>
    /\ call.result.kind = "str"

(***************************************************************************)
(* Properties of the start-up.                                             *)
(***************************************************************************)
\* The comma-separated tokens of s, as pairs of their first and last index
TokenSpans(s) ==
    {sp \in (1..(Len(s) + 1)) \X (0..Len(s)) :
        /\ sp[2] >= sp[1] - 1
        /\ (sp[1] = 1 \/ s[sp[1] - 1] = ",")
        /\ (sp[2] = Len(s) \/ s[sp[2] + 1] = ",")
        /\ \A k \in sp[1]..sp[2] : s[k] # ","}

\* s[a..b] is whitespace, an optional sign, a numeral, whitespace; a numeral
\* is made of digits, each underscore in it standing between two digits
IntegerText(s, a, b) ==
    \E lo \in a..b : \E hi \in lo..b :
        /\ \A k \in a..(lo - 1) : s[k] \in WhiteSpace
        /\ \A k \in (hi + 1)..b : s[k] \in WhiteSpace
        /\ (s[lo] \in Digits \/ (s[lo] \in {"+", "-"} /\ hi > lo))
        /\ \A k \in (lo + 1)..hi :
              \/ s[k] \in Digits
              \/ s[k] = "_" /\ k < hi /\ s[k - 1] \in Digits /\ s[k + 1] \in Digits

AllowlistPresent(wl) == wl.kind = "str" /\ Len(wl.s) > 0

AllowlistWellFormed(wl) ==
    /\ AllowlistPresent(wl)
    /\ \A sp \in TokenSpans(wl.s) : IntegerText(wl.s, sp[1], sp[2])

ExpectedReport(token, wl) ==
    IF ~AllowlistPresent(wl) THEN "allowlist_missing"
    ELSE IF ~AllowlistWellFormed(wl) THEN "allowlist_malformed"
    ELSE IF token.kind = "none" THEN "token_missing"
    ELSE "none"

\* C10: the client is constructed only if DISCORD_TOKEN is present and
\* WHITELISTED_SERVER_IDS is present, non-empty and made of integers; in every
\* other case the start-up reports the corresponding error and exits with no
\* client constructed.
C10_ClientOnlyWithValidConfig ==
    /\ boot.client => (boot.token.kind = "str" /\ AllowlistWellFormed(boot.wl))
    /\ boot.pc \in {"constructed", "running"} => boot.client
    /\ boot.reported = "none" <=> boot.pc # "exited"
    /\ boot.pc = "exited"
        => (~boot.client /\ boot.reported = ExpectedReport(boot.token, boot.wl))
    /\ (ExpectedReport(boot.token, boot.wl) # "none" /\ boot.pc \notin {"load", "check_token"})
        => boot.pc = "exited"

C10_Witness ==
    /\ boot.pc = "exited"
    /\ boot.wl = EnvStr(<<"1", ",", " ", "a">>)
    /\ boot.token.kind = "str"
    /\ boot.reported = "allowlist_malformed"
    /\ ~boot.client

(***************************************************************************)
(* Further properties of on_message.                                       *)
(***************************************************************************)
\* An event that passes the filters of lines 88-98: not the bot's own, from an
\* allowed guild or a direct message, a reply, beginning with /translate
CommandEvent(hr) ==
    /\ Delivered(hr)
    /\ hr.msg.author = "user"
    /\ (hr.msg.guild.kind = "none" \/ hr.msg.guild.id \in boot.allowlist)
    /\ hr.msg.reference = "id"
    /\ BeginsWithCommand(hr.msg.content)

HasWhitespace(content) == \E i \in 1..Len(content) : content[i] \in WhiteSpace

UsageOnly(hr) ==
    /\ hr.attempts = <<UsageReply>>
    /\ hr.sent \in {<<>>, hr.attempts}
    /\ hr.fetches = 0
    /\ hr.relay = NoFrame
    /\ hr.pc \in {"await_reply", "done"}

GoesOnToValidation(hr) ==
    /\ \A i \in 1..Len(hr.attempts) : hr.attempts[i].kind # "usage"
    /\ \/ hr.fetches = 1
       \/ hr.attempts # <<>> /\ hr.attempts[1].kind = "invalid_code"

\* C11 (as claimed): the text of an authorized reply that begins with
\* /translate is split at the first whitespace; without whitespace the handler
\* sends the usage reply and stops, with whitespace it sends no usage reply
\* and goes on to validate the language code.
C11_SplitAtWhitespace ==
    \A h \in Handlers :
        LET hr == handlers[h]
        IN  CommandEvent(hr)
            => IF HasWhitespace(hr.msg.content)
               THEN GoesOnToValidation(hr)
               ELSE UsageOnly(hr)

\* C11 (amended): the text of an authorized reply that begins with /translate
\* is split at the first space character; a tab or a newline does not split.
\* Without a space the handler sends the usage reply and stops, with no fetch
\* and no provider call; with a space it sends no usage reply and goes on to
\* validate the language code.
C11_SplitAtSpace ==
    \A h \in Handlers :
        LET hr == handlers[h]
        IN  CommandEvent(hr)
            => IF HasArgument(hr.msg.content)
               THEN GoesOnToValidation(hr)
               ELSE UsageOnly(hr)

C11_Witness ==
    \E h \in Handlers :
        /\ handlers[h].pc = "done"
        /\ handlers[h].msg.content = CommandToken \o <<"\t", "F", "r">>
        /\ handlers[h].sent = <<UsageReply>>
        /\ handlers[h].fetches = 0

\* The relay was invoked with the fetched text and the validated code, and the
\* handler answers its result with the translation reply or, for None, with
\* the both-services-failed reply
RelayDecidesReply(hr) ==
    LET code == Lower(SuppliedCode(hr.msg.content))
    IN  /\ hr.relay.pc # "none"
        /\ hr.relay.text = hr.fetch_result.content
        /\ hr.relay.target = code
        /\ hr.relay.calls # <<>>
        /\ hr.relay.calls[1] = [provider |-> "GoogleTranslator", source |-> "auto",
                                target |-> code, text |-> hr.fetch_result.content]
        /\ hr.relay.pc = "returned"
            => /\ hr.attempts # <<>>
               /\ hr.attempts[1] =
                    IF hr.relay.result.kind = "str"
                    THEN [kind |-> "translation", code |-> Upper(code),
                          text |-> hr.relay.result.s, mention |-> hr.fetch_result.mention]
                    ELSE [kind |-> "both_failed", code |-> code, text |-> "", mention |-> ""]

FetchedWithText(hr) == hr.fetch_result.kind = "msg" /\ hr.fetch_result.content # ""

\* C12 (as claimed): for every authorized, well-formed reply-command whose
\* referenced message was fetched with non-empty text, the relay is invoked
\* with the fetched text and the validated code and its result decides the
\* reply: the translation reply for a string, the both-services-failed reply
\* for None.
C12_RelayResultDecidesReply ==
    \A h \in Handlers :
        LET hr == handlers[h]
        IN  (/\ CommandEvent(hr)
             /\ HasArgument(hr.msg.content)
             /\ TwoLetters(SuppliedCode(hr.msg.content))
             /\ FetchedWithText(hr))
            => RelayDecidesReply(hr)

\* C13 (as claimed): for a well-formed reply-command that has entered the
\* fetch/translate/reply pipeline, every error other than not-found and
\* forbidden that the fetch, line 123 or a reply send raises is caught by the
\* handler and answered with the internal-error reply carrying the error's
\* detail: no such error leaves the handler, and a caught one is followed by
\* that reply, which is being sent or was delivered.
C13_UnexpectedErrorReported ==
    \A h \in Handlers :
        LET hr == handlers[h]
            unexpected(e) == e \notin {"none", "NotFound", "Forbidden"}
        IN  (/\ CommandEvent(hr)
             /\ HasArgument(hr.msg.content)
             /\ TwoLetters(SuppliedCode(hr.msg.content))
             /\ hr.fetches > 0)
            => /\ ~(hr.ending = "raised" /\ unexpected(hr.error))
               /\ \A i \in 1..Len(hr.caught) :
                     unexpected(hr.caught[i])
                         => /\ hr.attempts # <<>>
                            /\ hr.attempts[Len(hr.attempts)] = InternalErrorReply(hr.caught[i])
                            /\ \/ hr.pc = "await_reply" /\ hr.sending = InternalErrorReply(hr.caught[i])
                               \/ hr.pc = "done" /\ hr.sent = <<InternalErrorReply(hr.caught[i])>>

(***************************************************************************)
(* Further properties of get_translation.                                  *)
(***************************************************************************)
\* C14: one execution of get_translation invokes the primary provider at most
\* once and the secondary provider at most once, the secondary only after the
\* primary was invoked and failed, and never after the primary returned a
\* non-empty result.
C14_AtMostTwoAttempts ==
    LET google == {i \in 1..Len(call.calls) : call.calls[i].provider = "GoogleTranslator"}
        memory == {i \in 1..Len(call.calls) : call.calls[i].provider = "MyMemoryTranslator"}
    IN  /\ Len(call.calls) <= 2
        /\ Cardinality(google) <= 1
        /\ Cardinality(memory) <= 1
        /\ google \cup memory = 1..Len(call.calls)
        /\ \A i \in memory : i = 2 /\ 1 \in google /\ Len(call.outs) >= 1
                                /\ ~NonEmptyString(call.outs[1])
        /\ (Len(call.outs) >= 1 /\ NonEmptyString(call.outs[1])) => memory = {}
        /\ Len(call.outs) <= Len(call.calls)

C14_Witness ==
    /\ call.pc = "returned"
    /\ Len(call.calls) = 2
    /\ call.calls[2].provider = "MyMemoryTranslator"
    /\ call.outs[1] = ResStr("")
    /\ call.outs[2] = Raises

(***************************************************************************)
(* Properties of the event loop.                                           *)
(***************************************************************************)
\* C15 (as claimed): while one handler is inside a translation provider call
\* the event loop can run every other handler that has a step to take: deliver
\* its event, resume it after its fetch or resume it after its reply send.
C15_OthersRunDuringProviderCall ==
    \A h \in Handlers : \A g \in Handlers \ {h} :
        Blocking(handlers[h])
            => /\ handlers[g].pc = "idle" => ENABLED Receive(g, LoopEvents)
               /\ handlers[g].pc = "await_fetch" => ENABLED FetchReturn(g, LoopFetchOutcomes)
               /\ handlers[g].pc = "await_reply" => ENABLED ReplyReturn(g, LoopReplyOutcomes)

(***************************************************************************)
(* Properties of command detection.                                        *)
(***************************************************************************)
\* C16: an event from a user, in an allowed guild or in no guild, that
\* carries no reference to a prior message, or whose text does not begin with
\* /translate, gets no reply, no fetch and no provider invocation, whatever
\* its text; the handler returns at once.
C16_NonCommandIgnored ==
    \A h \in Handlers :
        LET hr == handlers[h]
        IN  (/\ Delivered(hr)
             /\ hr.msg.author = "user"
             /\ (hr.msg.guild.kind = "none" \/ hr.msg.guild.id \in boot.allowlist)
             /\ (hr.msg.reference # "id" \/ ~BeginsWithCommand(hr.msg.content)))
                => /\ Silent(hr)
                   /\ hr.pc = "done"
                   /\ hr.ending = "returned"

C16_Witness ==
    \E h \in Handlers :
        /\ handlers[h].pc = "done"
        /\ handlers[h].msg = [author |-> "user", guild |-> Guild(1), reference |-> "none",
                              content |-> WellFormedCommand]
        /\ Silent(handlers[h])

(***************************************************************************)
(* Termination.                                                            *)
(***************************************************************************)
\* C17: when every fetch, provider call and reply send eventually returns or
\* raises, every handler invocation that has begun eventually ends, either by
\* returning or with an unhandled exception, whatever the other handlers do;
\* and a handler that is waiting for one of its own external calls needs
\* nothing from another handler beyond the loop's thread being free.
C17_HandlerTerminates ==
    /\ \A h \in Handlers :
          (handlers[h].pc # "idle")
              ~> (handlers[h].pc = "done" /\ handlers[h].ending \in {"returned", "raised"})
    /\ [](\A h \in Handlers :
            blocked \in {0, h}
                => /\ handlers[h].pc = "await_fetch" => ENABLED FetchReturn(h, LoopFetchOutcomes)
                   /\ handlers[h].pc = "in_primary" => ENABLED PrimaryReturn(h, LoopProviderOutcomes)
                   /\ handlers[h].pc = "in_secondary" => ENABLED SecondaryReturn(h, LoopProviderOutcomes)
                   /\ handlers[h].pc = "await_reply" => ENABLED ReplyReturn(h, LoopReplyOutcomes))

C17_Witness ==
    \E h \in Handlers : \E g \in Handlers \ {h} :
        /\ handlers[h].pc = "done"
        /\ handlers[h].relay # NoFrame
        /\ Len(handlers[h].relay.calls) = 2
        /\ handlers[g].pc = "done"
        /\ handlers[g].ending = "raised"

(***************************************************************************)
(* Properties of the replies of one event.                                 *)
(***************************************************************************)
\* C18: for every event and every outcome of the fetch, the providers and
\* the reply sends, at most one reply send completes; the completed send is
\* the last reply the handler attempted for that event, and the handler
\* returns as soon as it completes.
C18_AtMostOneReplyDelivered ==
    \A h \in Handlers :
        LET hr == handlers[h]
        IN  /\ Len(hr.sent) <= 1
            /\ Len(hr.sent) <= Len(hr.attempts)
            /\ hr.sent # <<>>
                => /\ hr.sent[1] = hr.attempts[Len(hr.attempts)]
                   /\ hr.pc = "done"
                   /\ hr.ending = "returned"

C18_Witness ==
    \E h \in Handlers :
        /\ handlers[h].pc = "done"
        /\ Len(handlers[h].attempts) = 2
        /\ handlers[h].attempts[1].kind = "translation"
        /\ handlers[h].sent = <<handlers[h].attempts[2]>>

\* C19 (as claimed): the "could not be found" reply is sent only when the
\* event's fetch of the referenced message raised NotFound, and the
\* no-read-permission reply only when that fetch raised Forbidden; an error
\* of the relay or of a reply send never produces either of them.
C19_FetchErrorRepliesOnlyForFetch ==
    \A h \in Handlers :
        LET hr == handlers[h]
        IN  \A i \in 1..Len(hr.attempts) :
                /\ hr.attempts[i] = NotFoundReply => hr.fetch_result.kind = "NotFound"
                /\ hr.attempts[i] = ForbiddenReply => hr.fetch_result.kind = "Forbidden"

====
